---------------------------- MODULE Spec2Model ----------------------------
(***************************************************************************)
(* Model of the PDF layout engine of the Statsig order-form generator      *)
(* (src/app.py): the page-flow check ensure_space of the agreement         *)
(* section, wrap_text_to_width, sort_rows_by_fee_desc and the section      *)
(* sequence of create_branded_pdf.                                         *)
(*                                                                         *)
(* Lengths are PDF points.  Money is counted in whole cents.  Strings the  *)
(* code inspects (texts to wrap, service labels, fee strings) are          *)
(* sequences of one-character strings.                                     *)
(***************************************************************************)
EXTENDS Integers, Sequences, FiniteSets, TLC

VARIABLES
    pc,           \* position of the running procedure
    c,            \* canvas state: page index, active font, fill color
    y,            \* the vertical cursor of the running section
    lastCall,     \* the ensure_space call just made: its argument and the state before it
    text,         \* wrap_text_to_width: the text argument
    max_width,    \* wrap_text_to_width: the max_width argument
    lines,        \* wrap_text_to_width: the returned lines
    expect,       \* the lines a re-wrap is compared with
    rows,         \* sort_rows_by_fee_desc: the rows argument
    sorted_rows,  \* sort_rows_by_fee_desc: the returned rows
    sorted_from,  \* the input position of each returned row
    order,        \* create_branded_pdf: the order argument
    services,     \* create_branded_pdf: the services argument
    warehouse_type, \* create_branded_pdf: the warehouse_type argument
    table,        \* create_branded_pdf: the table layout (top, head_h, row_heights, ...)
    y_cursor,     \* create_branded_pdf: the top of the next table row
    idx,          \* the index of the running loop
    para,         \* the usage-terms paragraph being drawn
    unit,         \* the unit drawn last: its kind, page and vertical extent
    period_draws, \* how often the subscription period text was drawn
    total_text,   \* the text drawn in the total row
    paragraph_blocks, \* create_branded_pdf: the paragraphs of the usage terms
    agreement_section, \* draw_agreement_section: the agreement_section argument
    wrapped_agreement, \* draw_agreement_section: the wrapped lines of the plain text
    cursor_x,     \* draw_agreement_section: cursor_x of the rich text, in 1/100 point
    cursor_y,     \* draw_agreement_section: cursor_y of the rich text
    drawn_text,   \* the text drawn last: its place, page, font and fill color
    signature,    \* the signature block: the pages and the extent of its elements
    links,        \* the regions registered with linkURL, in their order
    session,      \* main: st.session_state
    pdf_call,     \* main: the call of create_branded_pdf in the last run, if it made one
    went_back,    \* main: a Back button was clicked in this session
    raw_row,      \* normalize_service_rows: a row as it is given
    normalized_row, \* normalize_service_rows: the row it appends
    row_layout,   \* create_branded_pdf: the wrapped cells and the height of the row
    files,        \* the paths for which os.path.exists is true
    registry,     \* pdfmetrics: the registered TrueType fonts, name to file
    renders,      \* the calls of create_branded_pdf of the process, each with its locals
    end_args,     \* compute_end_date: the start and term_months arguments
    end_result    \* compute_end_date: the returned date

flowVars == <<c, y, lastCall>>
wrapVars == <<text, max_width, lines, expect>>
sortVars == <<rows, sorted_rows, sorted_from>>
renderVars == <<order, services, warehouse_type, table, y_cursor, idx, para, unit,
                period_draws, total_text, paragraph_blocks>>
agreeVars == <<agreement_section, wrapped_agreement, cursor_x, cursor_y, drawn_text,
               signature, links>>
wizardVars == <<session, pdf_call, went_back>>
normVars == <<raw_row, normalized_row, row_layout>>
assetVars == <<files, registry, renders>>
dateVars == <<end_args, end_result>>
moreVars == <<normVars, assetVars, dateVars>>
restVars == <<wizardVars, moreVars>>
laterVars == <<agreeVars, restVars>>
vars == <<pc, flowVars, wrapVars, sortVars, renderVars, laterVars>>

\* What the actions of one procedure leave alone.
exceptFlow == <<wrapVars, sortVars, renderVars, laterVars>>
exceptWrap == <<flowVars, sortVars, renderVars, laterVars>>
exceptSort == <<flowVars, wrapVars, renderVars, laterVars>>
exceptRender == <<lastCall, wrapVars, sortVars, laterVars>>

(***************************************************************************)
(* Bounds of the model.                                                    *)
(***************************************************************************)
MaxPages == 3       \* pages a run may start
Depth == 30         \* how far below the page's bottom edge a cursor may start
MaxTextLen == 5     \* characters of a text to wrap
MaxSortRows == 3    \* rows of a list to sort
MaxTableRows == 20  \* line items of a rendered order
MaxAddrLen == 2     \* characters of an address text
MaxFiles == 4       \* candidate asset files that exist
MaxRenders == 2     \* renders a thread of the process makes one after the other

(***************************************************************************)
(* Page geometry.                                                          *)
(***************************************************************************)
PageHeight == 792
PageWidth == 612
min_bottom_margin == 40
TopOffset == 56
TopMargin == PageHeight - TopOffset

(***************************************************************************)
(* The canvas.  showPage ends the page and starts the next one with the    *)
(* initial graphics state: the initial font and a black fill.              *)
(***************************************************************************)
DefaultFont == <<"Helvetica", 12>>
font_regular == "Regular"
font_bold == "Bold"
font_italic == "Italic"
Colors == {"black", "white", "blue", "link"}

NewCanvas == [page |-> 1, font |-> DefaultFont, fill |-> "black"]

showPage(cv) == [cv EXCEPT !.page = @ + 1, !.font = DefaultFont, !.fill = "black"]

setFillColor_on_next_page(cv, color) == [showPage(cv) EXCEPT !.fill = color]

setFillColor(cv, color) == [cv EXCEPT !.fill = color]

setFont(cv, name, size) == [cv EXCEPT !.font = <<name, size>>]

(***************************************************************************)
(* draw_agreement_section.ensure_space: the pair (canvas, cursor) after    *)
(* the call.                                                               *)
(***************************************************************************)
ensure_space_le(cv, cur, required_height) ==
    IF cur - required_height <= min_bottom_margin
    THEN [cv |-> setFillColor(showPage(cv), "black"), y |-> TopMargin]
    ELSE [cv |-> cv, y |-> cur]

ensure_space_residual(cv, cur, required_height) ==
    IF cur - required_height < min_bottom_margin
    THEN [cv |-> setFillColor(showPage(cv), "black"),
          y |-> TopMargin - required_height]
    ELSE [cv |-> cv, y |-> cur]

ensure_space(cv, cur, required_height) ==
    IF cur - required_height < min_bottom_margin
    THEN [cv |-> setFillColor(showPage(cv), "black"), y |-> TopMargin]
    ELSE [cv |-> cv, y |-> cur]

NoCall == [made |-> FALSE]

(***************************************************************************)
(* Text measurement.  A text is a sequence of characters; None is the      *)
(* absent text.  stringWidth adds the advance widths of the characters, in *)
(* hundredths of a point at size 10, of Helvetica, the font the code falls *)
(* back to.                                                                *)
(***************************************************************************)
Whitespace == {" ", "\n"}
Chars == Whitespace \cup {"i", "W"}

CharWidth(ch) ==
    CASE ch \in {"i", "j", "l", "rsquo"} -> 222
      [] ch \in {" ", "!", ",", ".", "/", ":", ";", "I", "[", "\n", "]", "f",
                   "t"} -> 278
      [] ch \in {"(", ")", "-", "r", "ldquo", "rdquo"} -> 333
      [] ch \in {"J", "c", "k", "s", "v", "x", "y", "z"} -> 500
      [] ch \in {"#", "$", "0", "1", "2", "3", "4", "5", "6", "7", "8", "9",
                   "?", "L", "_", "a", "b", "d", "e", "g", "h", "n",
                   "o", "p", "q", "u"} -> 556
      [] ch \in {"+", "<", "=", ">"} -> 584
      [] ch \in {"F", "T", "Z"} -> 611
      [] ch \in {"&", "A", "B", "E", "K", "P", "S", "V", "X", "Y"} -> 667
      [] ch \in {"C", "D", "H", "N", "R", "U", "w"} -> 722
      [] ch \in {"G", "O", "Q"} -> 778
      [] ch \in {"M", "m"} -> 833
      [] ch \in {"%"} -> 889
      [] ch \in {"W"} -> 944
      [] ch \in {"@"} -> 1015

RECURSIVE stringWidth(_)
stringWidth(s) ==
    IF s = <<>> THEN 0
    ELSE IF Len(s) = 1 THEN CharWidth(s[1])
    ELSE LET half == Len(s) \div 2 IN
         stringWidth(SubSeq(s, 1, half)) + stringWidth(SubSeq(s, half + 1, Len(s)))

\* str.strip(): the text without its leading and trailing whitespace.
RECURSIVE lstrip(_)
lstrip(s) ==
    IF s # <<>> /\ Head(s) \in Whitespace THEN lstrip(Tail(s)) ELSE s

RECURSIVE rstrip(_)
rstrip(s) ==
    IF s # <<>> /\ s[Len(s)] \in Whitespace
    THEN rstrip(SubSeq(s, 1, Len(s) - 1))
    ELSE s

strip(s) == rstrip(lstrip(s))

\* str.split(): the maximal runs of non-whitespace characters, in order.
RECURSIVE splitFrom(_, _, _)
splitFrom(s, word, acc) ==
    IF s = <<>>
    THEN IF word = <<>> THEN acc ELSE Append(acc, word)
    ELSE IF Head(s) \in Whitespace
         THEN splitFrom(Tail(s), <<>>, IF word = <<>> THEN acc ELSE Append(acc, word))
         ELSE splitFrom(Tail(s), Append(word, Head(s)), acc)

\* A long text is split at a whitespace character near its middle, which
\* gives the same words.
RECURSIVE split(_)
split(s) ==
    LET gaps == {i \in DOMAIN s : s[i] \in Whitespace /\ i > Len(s) \div 4
                                                       /\ i < Len(s) - Len(s) \div 4} IN
    IF Len(s) <= 24 \/ gaps = {}
    THEN splitFrom(s, <<>>, <<>>)
    ELSE LET cut == CHOOSE i \in gaps : TRUE IN
         split(SubSeq(s, 1, cut - 1)) \o split(SubSeq(s, cut + 1, Len(s)))

\* " ".join(parts)
RECURSIVE join(_)
join(parts) ==
    IF parts = <<>> THEN <<>>
    ELSE IF Len(parts) = 1 THEN parts[1]
    ELSE parts[1] \o <<" ">> \o join(Tail(parts))

(***************************************************************************)
(* wrap_text_to_width: greedy word wrap.                                   *)
(***************************************************************************)
candidate_unspaced(current, word) == current \o word

candidate_of(current, word) == current \o <<" ">> \o word

fits_word_only(current, word, width) == stringWidth(word) <= width

fits(current, word, width) == stringWidth(candidate_of(current, word)) <= width

keep_candidate(current, word) == current \o <<" ">> \o word

next_line_start(current, word) == word

no_lines == <<>>

blank_result == << <<>> >>

RECURSIVE wrap_loop(_, _, _, _)
wrap_loop(words, current, acc, width) ==
    IF words = <<>>
    THEN Append(acc, current)
    ELSE IF fits(current, Head(words), width)
         THEN wrap_loop(Tail(words), candidate_of(current, Head(words)), acc, width)
         ELSE wrap_loop(Tail(words), next_line_start(current, Head(words)),
                        Append(acc, current), width)

wrap_text_to_width(t, width) ==
    LET content == strip(IF t.none THEN <<>> ELSE t.chars) IN
    IF content = <<>>
    THEN blank_result
    ELSE LET words == split(content) IN
         wrap_loop(Tail(words), Head(words), <<>>, width)

(***************************************************************************)
(* Values of a row dictionary: a number (a float, in cents), a string, or  *)
(* None.  A row is a function from some of the keys to values; get is      *)
(* dict.get.                                                               *)
(***************************************************************************)
Num(v) == [kind |-> "num", v |-> v]
Str(s) == [kind |-> "str", s |-> s]
None == [kind |-> "none"]

get(row, key, default) == IF key \in DOMAIN row THEN row[key] ELSE default

Digits == <<"0", "1", "2", "3", "4", "5", "6", "7", "8", "9">>
IsDigit(ch) == \E d \in 1 .. 10 : Digits[d] = ch
DigitVal(ch) == (CHOOSE d \in 1 .. 10 : Digits[d] = ch) - 1

RECURSIVE NatToStr(_)
NatToStr(n) ==
    IF n < 10 THEN <<Digits[n + 1]>>
    ELSE NatToStr(n \div 10) \o <<Digits[(n % 10) + 1]>>

RECURSIVE StrToNat(_)
StrToNat(s) ==
    IF s = <<>> THEN 0
    ELSE 10 * StrToNat(SubSeq(s, 1, Len(s) - 1)) + DigitVal(s[Len(s)])

AllDigits(s) == s # <<>> /\ \A i \in DOMAIN s : IsDigit(s[i])

Pad(digits, n) == [i \in 1 .. (n - Len(digits)) |-> "0"] \o digits

\* format(n, ","): the digits of n >= 0 in groups of three.
RECURSIVE Grouped(_)
Grouped(n) ==
    IF n < 1000 THEN NatToStr(n)
    ELSE Grouped(n \div 1000) \o <<",">> \o Pad(NatToStr(n % 1000), 3)

Abs(n) == IF n < 0 THEN 0 - n ELSE n
SignOf(n) == IF n < 0 THEN <<"-">> ELSE <<>>

\* fmt_money: f"${amount:,.2f}" of an amount in cents.
fmt_money(amount) ==
    <<"$">> \o SignOf(amount) \o Grouped(Abs(amount) \div 100) \o <<".">>
        \o Pad(NatToStr(Abs(amount) % 100), 2)

\* str(x) of a float x: the shortest decimal that reads back as x, with at
\* least one decimal place.
float_str(amount) ==
    LET cents == Abs(amount) % 100 IN
    SignOf(amount) \o NatToStr(Abs(amount) \div 100) \o <<".">>
        \o (IF cents % 10 = 0 THEN NatToStr(cents \div 10) ELSE Pad(NatToStr(cents), 2))

NoneStr == <<"N", "o", "n", "e">>

\* str(value)
str(value) ==
    CASE value.kind = "str" -> value.s
      [] value.kind = "num" -> float_str(value.v)
      [] value.kind = "none" -> NoneStr

remove(s, ch) == SelectSeq(s, LAMBDA x : x # ch)

IndexOf(s, ch) ==
    IF \E i \in DOMAIN s : s[i] = ch
    THEN CHOOSE i \in DOMAIN s : s[i] = ch /\ \A j \in 1 .. (i - 1) : s[j] # ch
    ELSE 0

\* float(s): [ok, v] with v in cents; ok is FALSE where float raises
\* ValueError.  Decimals are read to two places.
parse_float(s) ==
    LET body == strip(s)
        signed == body # <<>> /\ Head(body) \in {"-", "+"}
        digits == IF signed THEN Tail(body) ELSE body
        dot == IndexOf(digits, ".")
        whole == IF dot = 0 THEN digits ELSE SubSeq(digits, 1, dot - 1)
        frac == IF dot = 0 THEN <<>> ELSE SubSeq(digits, dot + 1, Len(digits))
        wellFormed ==
            /\ whole \o frac # <<>>
            /\ \A i \in DOMAIN whole : IsDigit(whole[i])
            /\ \A i \in DOMAIN frac : IsDigit(frac[i])
        frac2 == SubSeq(frac \o <<"0", "0">>, 1, 2)
        magnitude == 100 * StrToNat(whole) + StrToNat(frac2)
    IN IF wellFormed
       THEN [ok |-> TRUE,
             v |-> IF signed /\ Head(body) = "-" THEN 0 - magnitude ELSE magnitude]
       ELSE [ok |-> FALSE, v |-> 0]

cleaned_amount(s) == strip(remove(remove(s, "$"), ","))

\* safe_money(value: str)
safe_money(s) ==
    LET cleaned == cleaned_amount(s) IN
    IF cleaned = <<>> THEN 0
    ELSE IF parse_float(cleaned).ok THEN parse_float(cleaned).v ELSE 0

\* normalize_fee_value(value)
normalize_fee_value(value) ==
    IF value.kind = "none" THEN 0
    ELSE IF value.kind = "num" THEN value.v
    ELSE LET cleaned == cleaned_amount(str(value)) IN
         IF cleaned = <<>> THEN 0
         ELSE IF parse_float(cleaned).ok THEN parse_float(cleaned).v ELSE 0

\* parse_whole_number(value)
parse_whole_number(s) ==
    LET cleaned == strip(remove(s, ",")) IN
    IF AllDigits(cleaned) THEN StrToNat(cleaned) ELSE 0

upper(s) == [i \in DOMAIN s |-> IF s[i] = "n" THEN "N" ELSE IF s[i] = "a" THEN "A" ELSE s[i]]

NA == <<"N", "/", "A">>

\* format_usage_commitment_value with "N/A" for an empty value.
format_usage_commitment_value_or_na(value) ==
    LET raw == strip(str(value)) IN
    IF raw = <<>> \/ upper(raw) = NA
    THEN NA
    ELSE LET parsed == parse_whole_number(raw) IN
         IF parsed <= 0 /\ raw \notin {<<"0">>, <<"0", ".", "0">>, <<"0", ".", "0", "0">>}
         THEN raw
         ELSE Grouped(parsed)

\* format_usage_commitment_value(value)
format_usage_commitment_value(value) ==
    LET raw == strip(str(value)) IN
    IF raw = <<>> \/ upper(raw) = NA
    THEN IF upper(raw) = NA THEN NA ELSE <<>>
    ELSE LET parsed == parse_whole_number(raw) IN
         IF parsed <= 0 /\ raw \notin {<<"0">>, <<"0", ".", "0">>, <<"0", ".", "0", "0">>}
         THEN raw
         ELSE Grouped(parsed)

\* normalize_service_rows: one row.
normalize_service_row(row) ==
    [subscription_period |->
         Str(str(get(row, "subscription_period",
                     get(row, "Subscription Period", Str(<<>>))))),
     service |-> Str(str(get(row, "service", get(row, "Service", Str(<<>>))))),
     annual_usage_commitment |->
         Str(format_usage_commitment_value(
                 get(row, "annual_usage_commitment",
                     get(row, "Annual Usage Commitment", Str(<<>>))))),
     unit |-> Str(str(get(row, "unit", get(row, "Unit", Str(<<>>))))),
     annual_service_fee |->
         Num(normalize_fee_value(
                 get(row, "annual_service_fee",
                     get(row, "Annual Service Fee", Str(<<>>)))))]

normalize_service_rows(rs) == [i \in DOMAIN rs |-> normalize_service_row(rs[i])]

(***************************************************************************)
(* sort_rows_by_fee_desc.  sorted() is stable: it is modelled as the       *)
(* insertion of each element, in input order, behind every element whose   *)
(* key is not greater.  The result lists the input positions in output     *)
(* order.                                                                  *)
(***************************************************************************)
Support == <<"S", "u", "p", "p", "o", "r", "t">>

endswith(s, suffix) ==
    /\ Len(s) >= Len(suffix)
    /\ SubSeq(s, Len(s) - Len(suffix) + 1, Len(s)) = suffix

\* The key of a row: (label ends with "Support", -fee).
sort_key(row) ==
    <<endswith(strip(str(get(row, "service", Str(<<>>)))), Support),
      0 - normalize_fee_value(get(row, "annual_service_fee", Num(0)))>>

\* Tuple order on keys; FALSE < TRUE.
key_less(a, b) ==
    \/ ~a[1] /\ b[1]
    \/ a[1] = b[1] /\ a[2] < b[2]

insert_before_equal(perm, i, keys) ==
    LET ahead == {p \in DOMAIN perm : key_less(keys[perm[p]], keys[i])}
        at == Cardinality(ahead) IN
    SubSeq(perm, 1, at) \o <<i>> \o SubSeq(perm, at + 1, Len(perm))

insert_stable(perm, i, keys) ==
    LET behind == {p \in DOMAIN perm : key_less(keys[i], keys[perm[p]])}
        at == Len(perm) - Cardinality(behind) IN
    SubSeq(perm, 1, at) \o <<i>> \o SubSeq(perm, at + 1, Len(perm))

RECURSIVE sorted_order(_, _, _)
sorted_order(perm, i, keys) ==
    IF i > Len(keys) THEN perm
    ELSE sorted_order(insert_stable(perm, i, keys), i + 1, keys)

\* The input positions of the rows of sort_rows_by_fee_desc(rs), in output order.
sort_positions(rs) ==
    LET normalized == normalize_service_rows(rs)
        keys == [i \in DOMAIN normalized |-> sort_key(normalized[i])] IN
    sorted_order(<<>>, 1, keys)

sort_rows_by_fee_desc(rs) ==
    LET normalized == normalize_service_rows(rs)
        perm == sort_positions(rs) IN
    [p \in DOMAIN perm |-> normalized[perm[p]]]

(***************************************************************************)
(* create_branded_pdf: the table layout and the texts it depends on.       *)
(* Column widths are in hundredths of a point, like stringWidth.           *)
(***************************************************************************)
Max(a, b) == IF a >= b THEN a ELSE b

RECURSIVE Sum(_)
Sum(seq) == IF seq = <<>> THEN 0 ELSE Head(seq) + Sum(Tail(seq))

Txt(chars) == [none |-> FALSE, chars |-> chars]

\* str.splitlines() on "\n".
RECURSIVE splitlinesFrom(_, _, _)
splitlinesFrom(s, line, acc) ==
    IF s = <<>>
    THEN IF line = <<>> THEN acc ELSE Append(acc, line)
    ELSE IF Head(s) = "\n"
         THEN splitlinesFrom(Tail(s), <<>>, Append(acc, line))
         ELSE splitlinesFrom(Tail(s), Append(line, Head(s)), acc)

splitlines(s) == splitlinesFrom(s, <<>>, <<>>)

\* preserve_input_lines(text)
preserve_input_lines(t) ==
    IF t.none THEN << <<>> >>
    ELSE IF splitlines(t.chars) = <<>> THEN << <<>> >> ELSE splitlines(t.chars)

\* table_columns_for_warehouse(warehouse_type)
table_columns_for_warehouse(wt) ==
    IF wt \in {"Credit", "Credit/Usage Based", "Usage Based Pricing"}
    THEN << [key |-> "subscription_period",
             label |-> <<"S", "u", "b", "s", "c", "r", "i", "p", "t", "i",
                         "o", "n", " ", "T", "e", "r", "m">>],
            [key |-> "service", label |-> <<"S", "e", "r", "v", "i", "c",
                                            "e", "s">>],
            [key |-> "annual_usage_commitment", label |-> <<"C", "r", "e",
                                                            "d", "i", "t",
                                                            "s">>],
            [key |-> "annual_service_fee",
             label |-> <<"A", "n", "n", "u", "a", "l", " ", "F", "e", "e">>] >>
    ELSE << [key |-> "subscription_period",
             label |-> <<"S", "u", "b", "s", "c", "r", "i", "p", "t", "i",
                         "o", "n", " ", "P", "e", "r", "i", "o", "d">>],
            [key |-> "service", label |-> <<"S", "e", "r", "v", "i", "c",
                                            "e">>],
            [key |-> "annual_usage_commitment",
             label |-> <<"A", "n", "n", "u", "a", "l", " ", "U", "s", "a",
                         "g", "e", " ", "C", "o", "m", "m", "i", "t", "m",
                         "e", "n", "t">>],
            [key |-> "unit", label |-> <<"U", "n", "i", "t">>],
            [key |-> "annual_service_fee",
             label |-> <<"A", "n", "n", "u", "a", "l", " ", "S", "e", "r",
                         "v", "i", "c", "e", " ", "F", "e", "e">>] >>

\* widths, in percent of the table width
column_weights(n) == IF n = 5 THEN <<25, 23, 21, 12, 19>> ELSE <<27, 33, 20, 20>>

table_w == (PageWidth - 36) - 36

col_w(column_spec) ==
    [i \in DOMAIN column_spec |-> table_w * column_weights(Len(column_spec))[i]]

cell_padding == 800

\* The keys of the cells laid out and drawn for every row: column_spec[1:].
row_cell_keys_all(column_spec) == [i \in DOMAIN column_spec |-> column_spec[i].key]

row_cell_keys(column_spec) ==
    [i \in 1 .. (Len(column_spec) - 1) |-> column_spec[i + 1].key]

\* The text of one cell of a row.
cell_text(row, key) ==
    LET value == get(row, key, Str(<<>>)) IN
    IF key = "annual_service_fee" /\ value # Str(<<>>)
    THEN fmt_money(safe_money(str(value)))
    ELSE str(value)

MaxLines(wrapped) ==
    IF wrapped = <<>> THEN 0
    ELSE CHOOSE n \in {Len(wrapped[i]) : i \in DOMAIN wrapped} :
             \A i \in DOMAIN wrapped : Len(wrapped[i]) <= n

header_wrapped(column_spec) ==
    [i \in DOMAIN column_spec |->
        wrap_text_to_width(Txt(column_spec[i].label), col_w(column_spec)[i] - cell_padding)]

head_h_of(column_spec) == Max(24, MaxLines(header_wrapped(column_spec)) * 10 + 8)

row_wrapped(row, column_spec) ==
    LET keys == row_cell_keys(column_spec)
        first == Len(column_spec) - Len(keys) IN
    [i \in DOMAIN keys |->
        wrap_text_to_width(Txt(cell_text(row, keys[i])),
                           col_w(column_spec)[first + i] - cell_padding)]

row_height(row, column_spec) ==
    Max(22, Max(1, MaxLines(row_wrapped(row, column_spec))) * 10 + 8)

total_row_h == 22

\* The table layout computed before the table is drawn.
layout_table(rs, wt, heading_y) ==
    LET normalized == normalize_service_rows(rs)
        column_spec == table_columns_for_warehouse(wt)
        head_h == head_h_of(column_spec)
        row_heights == [i \in DOMAIN normalized |-> row_height(normalized[i], column_spec)]
        top == heading_y - 16 IN
    [laid_out |-> TRUE,
     services |-> normalized,
     column_spec |-> column_spec,
     top |-> top,
     head_h |-> head_h,
     row_heights |-> row_heights,
     table_h |-> head_h + Sum(row_heights) + total_row_h,
     y_total_divider |-> top - head_h - Sum(row_heights)]

\* total = sum(safe_money(str(row.get("annual_service_fee", ""))) for row in services)
RECURSIVE table_total_but_last(_)
table_total_but_last(rs) ==
    IF Len(rs) <= 1 THEN 0
    ELSE safe_money(str(get(Head(rs), "annual_service_fee", Str(<<>>))))
             + table_total_but_last(Tail(rs))

RECURSIVE table_total(_)
table_total(rs) ==
    IF rs = <<>> THEN 0
    ELSE safe_money(str(get(Head(rs), "annual_service_fee", Str(<<>>))))
             + table_total(Tail(rs))

(***************************************************************************)
(* The usage terms.  A text is given by its paragraphs (the pieces between *)
(* line breaks), a paragraph by the number of lines it wraps to at the     *)
(* text width of 540 points; 0 is a blank paragraph, <<0>> the empty text. *)
(***************************************************************************)
EmptyText == <<0>>
session_replay_term == <<3>>
cloud_short_fg_only == <<2>>
cloud_long_fg_plus_exp == <<3, 0, 3, 0, 3, 0, 2, 0, 2, 0, 2>>
wn_analysis_assignment_text == <<3, 0, 3, 0, 2, 0, 2>>
wn_analysis_only_text == <<3, 0, 3, 0, 2>>

FeatureGates == <<"F", "e", "a", "t", "u", "r", "e", " ", "G", "a", "t", "e",
                  "s", " ", "a", "n", "d", " ", "S", "D", "K", "s">>
SessionReplay == <<"S", "e", "s", "s", "i", "o", "n", " ", "R", "e", "p",
                   "l", "a", "y">>
Experimentation == <<"E", "x", "p", "e", "r", "i", "m", "e", "n", "t", "a",
                     "t", "i", "o", "n">>
AnalysisOnly == <<"E", "x", "p", "e", "r", "i", "m", "e", "n", "t", "a", "t",
                  "i", "o", "n", ":", " ", "A", "n", "a", "l", "y", "s", "i",
                  "s", " ", "O", "n", "l", "y">>
AnalysisAssignment ==
    <<"E", "x", "p", "e", "r", "i", "m", "e", "n", "t", "a", "t", "i", "o",
      "n", ":", " ", "A", "n", "a", "l", "y", "s", "i", "s", " ", "+", " ",
      "A", "s", "s", "i", "g", "n", "m", "e", "n", "t">>

\* products_from_services_rows(rows), as a set
products_from_services_rows(rs) ==
    LET names == {strip(str(get(normalize_service_rows(rs)[i], "service", Str(<<>>)))) :
                     i \in DOMAIN rs} IN
    {IF endswith(n, Support) THEN Support ELSE n : n \in names \ {<<>>}}

with_session_replay(base, has_session_replay) ==
    IF has_session_replay
    THEN IF base # EmptyText THEN base \o <<0>> \o session_replay_term
         ELSE session_replay_term
    ELSE base

\* build_usage_terms_for_products(warehouse_type, selected_products, rate)
build_usage_terms_for_products(wt, selected_products) ==
    LET has_feature_gates == FeatureGates \in selected_products
        has_session_replay == SessionReplay \in selected_products
        has_cloud_experimentation ==
            selected_products \cap {Experimentation, AnalysisOnly, AnalysisAssignment} # {}
        has_wn_analysis_assignment == AnalysisAssignment \in selected_products
        has_wn_analysis_only == AnalysisOnly \in selected_products
    IN CASE wt = "Cloud" ->
              with_session_replay(
                  IF has_feature_gates /\ has_cloud_experimentation
                  THEN cloud_long_fg_plus_exp
                  ELSE IF has_feature_gates THEN cloud_short_fg_only ELSE EmptyText,
                  has_session_replay)
         [] wt = "Warehouse Native" ->
              with_session_replay(
                  IF has_wn_analysis_assignment THEN wn_analysis_assignment_text
                  ELSE IF has_wn_analysis_only THEN wn_analysis_only_text ELSE EmptyText,
                  has_session_replay)
         [] OTHER -> EmptyText

\* usage_text = auto_usage_terms if auto_usage_terms else (order.usage_terms or "")
usage_text(o, rs, wt) ==
    LET auto_usage_terms == build_usage_terms_for_products(wt, products_from_services_rows(rs))
    IN IF auto_usage_terms # EmptyText THEN auto_usage_terms ELSE o.usage_terms

(***************************************************************************)
(* Idle values of the state a specification does not use.                  *)
(***************************************************************************)
NoText == [none |-> TRUE, chars |-> <<>>]
FlowIdle == c = NewCanvas /\ y = TopMargin /\ lastCall = NoCall
WrapIdle == text = NoText /\ max_width = 0 /\ lines = <<>> /\ expect = <<>>
SortIdle == rows = <<>> /\ sorted_rows = <<>> /\ sorted_from = <<>>
NoUnit == [kind |-> "none", page |-> 0, top |-> 0, bottom |-> 0, checked |-> FALSE]
NoTable == [laid_out |-> FALSE]
NoDrawnText == [made |-> FALSE]
NoSignature == [started |-> FALSE]
AgreeIdle ==
    /\ agreement_section = <<>>
    /\ wrapped_agreement = <<>>
    /\ cursor_x = 0
    /\ cursor_y = 0
    /\ drawn_text = NoDrawnText
    /\ signature = NoSignature
    /\ links = <<>>
NoSession == [form_step |-> 0]
NoPdfCall == [made |-> FALSE]
WizardIdle == session = NoSession /\ pdf_call = NoPdfCall /\ went_back = FALSE
NoRow == [absent |-> TRUE]
NoRowLayout == [made |-> FALSE]
NormIdle == raw_row = NoRow /\ normalized_row = NoRow /\ row_layout = NoRowLayout
AssetIdle == files = {} /\ registry = <<>> /\ renders = <<>>
DateIdle == end_args = <<>> /\ end_result = <<>>
MoreIdle == NormIdle /\ AssetIdle /\ DateIdle
RestIdle == WizardIdle /\ MoreIdle
LaterIdle == AgreeIdle /\ RestIdle
RenderIdle ==
    /\ order = [used |-> FALSE]
    /\ services = <<>>
    /\ warehouse_type = ""
    /\ table = NoTable
    /\ y_cursor = 0
    /\ idx = 0
    /\ para = 0
    /\ unit = NoUnit
    /\ period_draws = 0
    /\ total_text = <<>>
    /\ paragraph_blocks = <<>>

(***************************************************************************)
(* SpecEnsureSpace: the page flow of draw_agreement_section.  The section  *)
(* starts at any cursor, and alternates ensure_space calls with drawing    *)
(* that sets the font or the fill color and lowers the cursor.             *)
(***************************************************************************)
RequiredHeights == {12, 14, 24, 132, 696, 697, 800}
Advances == {12, 20, 24, 28, 30}
StartYs == (0 - Depth) .. TopMargin

InitEnsureSpace ==
    /\ pc = "drawing"
    /\ c = NewCanvas
    /\ y \in {s \in StartYs : s % 4 = 0 \/ s \in 36 .. 44}
    /\ lastCall = NoCall
    /\ WrapIdle
    /\ SortIdle
    /\ RenderIdle
    /\ LaterIdle

EnsureSpaceCall ==
    /\ pc = "drawing"
    /\ c.page < MaxPages
    /\ \E required_height \in RequiredHeights :
         LET r == ensure_space(c, y, required_height) IN
         /\ c' = r.cv
         /\ y' = r.y
         /\ lastCall' = [made |-> TRUE, required_height |-> required_height,
                         cv |-> c, y |-> y]
    /\ pc' = "ensured"
    /\ UNCHANGED exceptFlow

DrawAndAdvance ==
    /\ pc \in {"drawing", "ensured"}
    /\ \E d \in Advances, color \in {"black", "link"}, f \in {font_regular, font_bold} :
         /\ y - d >= 0 - Depth
         /\ c' = setFont(setFillColor(c, color), f, 10)
         /\ y' = y - d
    /\ lastCall' = NoCall
    /\ pc' = "drawing"
    /\ UNCHANGED exceptFlow

NextEnsureSpace == EnsureSpaceCall \/ DrawAndAdvance

SpecEnsureSpace == InitEnsureSpace /\ [][NextEnsureSpace]_vars

\* C1: ensure_space starts a new page if and only if the remaining space
\* (cursor minus the bottom margin 40) is less than the required height; when
\* the remaining space suffices the call leaves the page index, the cursor
\* and the fill color (the whole canvas state) as they were.
C1_BreakIffShort ==
    lastCall.made =>
        LET remaining == lastCall.y - min_bottom_margin IN
        /\ (c.page # lastCall.cv.page) <=> (remaining < lastCall.required_height)
        /\ remaining >= lastCall.required_height =>
               /\ c = lastCall.cv
               /\ y = lastCall.y

\* C1 witness: a call on the second page with exactly enough room, which
\* changes nothing while a fill color other than black is in force.
C1_Witness ==
    /\ lastCall.made
    /\ lastCall.y - min_bottom_margin = lastCall.required_height
    /\ c.fill = "link"
    /\ c.page = 2

\* C2: a call whose required height exceeds the remaining space makes exactly
\* one page transition and leaves the cursor at the top margin, page height
\* minus 56, whatever the cursor was and however large the height is.
C2_OneBreakToTop ==
    (lastCall.made /\ lastCall.required_height > lastCall.y - min_bottom_margin) =>
        /\ c.page = lastCall.cv.page + 1
        /\ y = PageHeight - 56

\* C2 witness: a required height larger than a whole page, from a cursor
\* below the bottom margin.
C2_Witness ==
    /\ lastCall.made
    /\ lastCall.required_height > TopMargin - min_bottom_margin
    /\ lastCall.y < min_bottom_margin
    /\ c.page = lastCall.cv.page + 1
    /\ y = TopMargin

(***************************************************************************)
(* SpecWrap: wrap_text_to_width applied to every text of at most           *)
(* MaxTextLen characters (and to None) at a range of widths, then applied  *)
(* again to its own output: to the returned lines joined by single spaces, *)
(* and to one returned line.                                               *)
(***************************************************************************)
RECURSIVE SeqsUpTo(_, _)
SeqsUpTo(S, n) ==
    IF n = 0 THEN {<<>>}
    ELSE LET shorter == SeqsUpTo(S, n - 1) IN
         shorter \cup {Append(s, x) : s \in {t \in shorter : Len(t) = n - 1}, x \in S}

Texts == {NoText} \cup {[none |-> FALSE, chars |-> s] : s \in SeqsUpTo(Chars, MaxTextLen)}
MaxWidths == {0, 222, 722, 1444, 2500}

InitWrap ==
    /\ pc = "call"
    /\ text \in Texts
    /\ max_width \in MaxWidths
    /\ lines = <<>>
    /\ expect = <<>>
    /\ FlowIdle
    /\ SortIdle
    /\ RenderIdle
    /\ LaterIdle

WrapCall ==
    /\ pc = "call"
    /\ lines' = wrap_text_to_width(text, max_width)
    /\ pc' = "returned"
    /\ UNCHANGED <<text, max_width, expect>>
    /\ UNCHANGED exceptWrap

RewrapJoined ==
    /\ pc = "returned"
    /\ expect = <<>>
    /\ text' = [none |-> FALSE, chars |-> join(lines)]
    /\ expect' = lines
    /\ lines' = <<>>
    /\ pc' = "call"
    /\ UNCHANGED max_width
    /\ UNCHANGED exceptWrap

RewrapLine ==
    /\ pc = "returned"
    /\ expect = <<>>
    /\ \E i \in DOMAIN lines :
         /\ text' = [none |-> FALSE, chars |-> lines[i]]
         /\ expect' = <<lines[i]>>
    /\ lines' = <<>>
    /\ pc' = "call"
    /\ UNCHANGED max_width
    /\ UNCHANGED exceptWrap

NextWrap == WrapCall \/ RewrapJoined \/ RewrapLine

SpecWrap == InitWrap /\ [][NextWrap]_vars

InputWords == split(IF text.none THEN <<>> ELSE text.chars)

IsBlank == text.none \/ \A i \in DOMAIN text.chars : text.chars[i] \in Whitespace

RECURSIVE WordsOfLines(_)
WordsOfLines(ls) ==
    IF ls = <<>> THEN <<>> ELSE split(Head(ls)) \o WordsOfLines(Tail(ls))

\* C6: every returned line measures at most max_width, except a line that is
\* one single word wider than max_width; every word wider than max_width is a
\* line of its own, whole.
C6_LinesFit ==
    pc = "returned" =>
        /\ \A i \in DOMAIN lines :
              \/ stringWidth(lines[i]) <= max_width
              \/ /\ Len(split(lines[i])) = 1
                 /\ split(lines[i])[1] = lines[i]
                 /\ stringWidth(lines[i]) > max_width
        /\ \A k \in DOMAIN InputWords :
              stringWidth(InputWords[k]) > max_width =>
                  \E i \in DOMAIN lines : lines[i] = InputWords[k]

\* C6 witness: a text of three words, one of them too wide and alone on its
\* line, the other two sharing a line that fits exactly.
C6_Witness ==
    /\ pc = "returned"
    /\ Len(InputWords) = 3
    /\ Len(lines) = 2
    /\ \E i \in DOMAIN lines :
          Len(split(lines[i])) = 1 /\ stringWidth(lines[i]) > max_width
    /\ \E i \in DOMAIN lines :
          Len(split(lines[i])) = 2 /\ stringWidth(lines[i]) = max_width

\* C7: wrapping again what wrap_text_to_width returned gives the same lines:
\* the lines joined by single spaces wrap to exactly those lines, and one
\* returned line wraps to that line alone.
C7_WrapIdempotent ==
    (pc = "returned" /\ expect # <<>>) => lines = expect

\* C7 witness: a re-wrap of several joined lines, and of a line of two words.
C7_Witness ==
    /\ pc = "returned"
    /\ expect # <<>>
    /\ lines = expect
    /\ \/ Len(lines) >= 3
       \/ Len(lines) = 1 /\ Len(split(lines[1])) = 2

\* C8: wrap_text_to_width never returns zero lines; None, the empty text and
\* a whitespace-only text give exactly one line, the empty string; any other
\* text gives at least one non-empty line.
C8_NeverZeroLines ==
    pc = "returned" =>
        /\ Len(lines) >= 1
        /\ IsBlank => lines = << <<>> >>
        /\ ~IsBlank => \E i \in DOMAIN lines : lines[i] # <<>>

\* C8 witness: a text of whitespace only, of both kinds.
C8_Witness ==
    /\ pc = "returned"
    /\ ~text.none
    /\ Len(text.chars) >= 2
    /\ \E i, j \in DOMAIN text.chars : text.chars[i] = " " /\ text.chars[j] = "\n"
    /\ IsBlank
    /\ lines = << <<>> >>

\* C9: the words of the returned lines, read in order, are exactly the
\* whitespace-separated words of the input in their order: no word dropped,
\* duplicated, reordered or split, and the words of a line are separated by
\* single spaces only.
C9_WordsPreserved ==
    pc = "returned" =>
        /\ WordsOfLines(lines) = InputWords
        /\ \A i \in DOMAIN lines : lines[i] = join(split(lines[i]))

\* C9 witness: three words separated by runs of mixed whitespace, wrapped
\* onto more than one line.
C9_Witness ==
    /\ pc = "returned"
    /\ expect = <<>>
    /\ Len(InputWords) >= 2
    /\ Len(lines) >= 2
    /\ ~text.none
    /\ \E i \in 1 .. Len(text.chars) - 1 :
          text.chars[i] \in Whitespace /\ text.chars[i + 1] \in Whitespace
    /\ WordsOfLines(lines) = InputWords

(***************************************************************************)
(* SpecSort: sort_rows_by_fee_desc applied to every list of at most        *)
(* MaxSortRows rows drawn from SortRowChoices: rows with equal and         *)
(* different fees, fees given as numbers, strings, None or not at all, and *)
(* labels that end with "Support", with or without whitespace behind it.   *)
(***************************************************************************)
LabelA == <<"A">>
LabelB == <<"B">>
LabelC == <<"C">>

SortRowChoices ==
    { [service |-> Str(LabelA), annual_service_fee |-> Num(1000),
       unit |-> Str(<<"u", "1">>)],
      [service |-> Str(LabelB), annual_service_fee |-> Num(5000),
       annual_usage_commitment |-> Str(<<"1", "0", "0", "0">>)],
      [service |-> Str(LabelC), annual_service_fee |-> Str(<<"$", "1", "0", ".", "0", "0">>),
       unit |-> Str(<<"u", "2">>)],
      [service |-> Str(LabelC), annual_service_fee |-> Str(<<"x">>),
       annual_usage_commitment |-> Str(<<"n", "/", "a">>)],
      [Service |-> Str(LabelA), annual_service_fee |-> None],
      [service |-> Str(Support), annual_service_fee |-> Num(5000)],
      [service |-> Str(<<"P", " ">> \o Support), annual_service_fee |-> Num(0 - 500)],
      [service |-> Str(Support \o <<" ">>), annual_service_fee |-> Num(1000),
       unit |-> Str(<<"u", "3">>)],
      [service |-> Str(Support \o <<"s">>)] }

InitSort ==
    /\ pc = "call"
    /\ rows \in SeqsUpTo(SortRowChoices, MaxSortRows)
    /\ sorted_rows = <<>>
    /\ sorted_from = <<>>
    /\ FlowIdle
    /\ WrapIdle
    /\ RenderIdle
    /\ LaterIdle

SortCall ==
    /\ pc = "call"
    /\ sorted_rows' = sort_rows_by_fee_desc(rows)
    /\ sorted_from' = sort_positions(rows)
    /\ pc' = "returned"
    /\ UNCHANGED rows
    /\ UNCHANGED exceptSort

NextSort == SortCall

SpecSort == InitSort /\ [][NextSort]_vars

IsPermutation(perm, n) ==
    /\ Len(perm) = n
    /\ \A k \in 1 .. n : \E p \in 1 .. n : perm[p] = k

\* The shape of the claim, for a given reading of "is a Support row".
SortedByFee(isSupport(_)) ==
    /\ IsPermutation(sorted_from, Len(rows))
    /\ Len(sorted_rows) = Len(rows)
    /\ \A p \in DOMAIN sorted_rows :
          sorted_rows[p] = normalize_service_rows(rows)[sorted_from[p]]
    /\ \A p, q \in DOMAIN sorted_rows :
          p < q =>
            /\ ~(isSupport(sorted_rows[p].service.s) /\ ~isSupport(sorted_rows[q].service.s))
            /\ (~isSupport(sorted_rows[p].service.s) /\ ~isSupport(sorted_rows[q].service.s))
                  => sorted_rows[p].annual_service_fee.v >= sorted_rows[q].annual_service_fee.v
            /\ (/\ isSupport(sorted_rows[p].service.s) = isSupport(sorted_rows[q].service.s)
                /\ sorted_rows[p].annual_service_fee.v = sorted_rows[q].annual_service_fee.v)
                  => sorted_from[p] < sorted_from[q]

EndsWithSupport(label) == endswith(label, Support)
EndsWithSupportStripped(label) == endswith(strip(label), Support)

contains(s, sub) ==
    \E i \in 1 .. (Len(s) - Len(sub) + 1) : SubSeq(s, i, i + Len(sub) - 1) = sub

EnterpriseSubscriptionAgreement ==
    <<"E", "n", "t", "e", "r", "p", "r", "i", "s", "e", " ", "S", "u", "b",
      "s", "c", "r", "i", "p", "t", "i", "o", "n", " ", "A", "g", "r", "e",
      "e", "m", "e", "n", "t">>
DataProcessingAddendum ==
    <<"D", "a", "t", "a", " ", "P", "r", "o", "c", "e", "s", "s", "i", "n",
      "g", " ", "A", "d", "d", "e", "n", "d", "u", "m">>

\* The text of the agreement for terms of type MSA, with the date shown.
msa_agreement_section(msa_date_display) ==
    <<"T", "h", "i", "s", " ", "O", "r", "d", "e", "r", " ", "F", "o", "r",
      "m", " ", "i", "s", " ", "s", "u", "b", "j", "e", "c", "t", " ", "t",
      "o", " ", "t", "h", "e", " ", "M", "a", "s", "t", "e", "r", " ", "S",
      "u", "b", "s", "c", "r", "i", "p", "t", "i", "o", "n", " ", "A", "g",
      "r", "e", "e", "m", "e", "n", "t", " ", "(", "ldquo", "M", "S", "A",
      "rdquo", ")", " ", "b", "e", "t", "w", "e", "e", "n", " ", "C", "u",
      "s", "t", "o", "m", "e", "r", " ", "a", "n", "d", " ", "S", "t", "a",
      "t", "s", "i", "g", ",", " ", "I", "n", "c", ".", ",", " ", "e", "x",
      "e", "c", "u", "t", "e", "d", " ", "o", "n", " ">>
    \o msa_date_display \o
    <<" ", ",", " ", "g", "o", "v", "e", "r", "n", "i", "n", "g", " ", "C",
      "u", "s", "t", "o", "m", "e", "r", "rsquo", "s", " ", "u", "s", "e",
      " ", "o", "f", " ", "t", "h", "e", " ", "S", "e", "r", "v", "i", "c",
      "e", " ", "d", "e", "s", "c", "r", "i", "b", "e", "d", " ", "h", "e",
      "r", "e", "i", "n", ".">>

\* The text of the agreement for every other type of terms.
online_agreement_section ==
    <<"T", "h", "i", "s", " ", "O", "r", "d", "e", "r", " ", "F", "o", "r",
      "m", " ", "i", "s", " ", "s", "u", "b", "j", "e", "c", "t", " ", "t",
      "o", " ", "t", "h", "e", " ", "E", "n", "t", "e", "r", "p", "r", "i",
      "s", "e", " ", "S", "u", "b", "s", "c", "r", "i", "p", "t", "i", "o",
      "n", " ", "A", "g", "r", "e", "e", "m", "e", "n", "t", " ", "a", "n",
      "d", " ", "D", "a", "t", "a", " ", "P", "r", "o", "c", "e", "s", "s",
      "i", "n", "g", " ", "A", "d", "d", "e", "n", "d", "u", "m", " ", "(",
      "t", "o", "g", "e", "t", "h", "e", "r", ",", " ", "t", "h", "e",
      "ldquo", "M", "S", "A", "rdquo", ")", " ", "g", "o", "v", "e", "r",
      "n", "i", "n", "g", " ", "C", "u", "s", "t", "o", "m", "e", "r",
      "rsquo", "s", " ", "u", "s", "e", " ", "o", "f", " ", "t", "h", "e",
      " ", "S", "e", "r", "v", "i", "c", "e", "s", " ", "d", "e", "s", "c",
      "r", "i", "b", "e", "d", " ", "h", "e", "r", "e", "i", "n", ".">>

MM_DD_YYYY == <<"M", "M", "/", "D", "D", "/", "Y", "Y", "Y", "Y">>

\* agreement_section as create_branded_pdf puts it together.
agreement_section_of(o) ==
    IF o.terms_type = "MSA"
    THEN msa_agreement_section(IF strip(o.msa_execution_date) # <<>>
                               THEN strip(o.msa_execution_date) ELSE MM_DD_YYYY)
    ELSE online_agreement_section

is_rich(section) ==
    /\ contains(section, EnterpriseSubscriptionAgreement)
    /\ contains(section, DataProcessingAddendum)

segments ==
    << [text |-> <<"T", "h", "i", "s", " ", "O", "r", "d", "e", "r", " ",
                   "F", "o", "r", "m", " ", "i", "s", " ", "s", "u", "b",
                   "j", "e", "c", "t", " ", "t", "o", " ", "t", "h", "e",
                   " ">>,
        url |-> ""],
       [text |-> EnterpriseSubscriptionAgreement,
        url |-> "https://www.statsig.com/enterprise-terms"],
       [text |-> <<" ", "a", "n", "d", " ">>, url |-> ""],
       [text |-> DataProcessingAddendum, url |-> "https://statsig.com/legal/online-dpa"],
       [text |-> <<" ", "(", "t", "o", "g", "e", "t", "h", "e", "r", ",",
                   " ", "t", "h", "e", "ldquo", "M", "S", "A", "rdquo",
                   ")", " ", "g", "o", "v", "e", "r", "n", "i", "n", "g",
                   " ", "C", "u", "s", "t", "o", "m", "e", "r", "rsquo",
                   "s", " ", "u", "s", "e", " ", "o", "f", " ", "t", "h",
                   "e", " ", "S", "e", "r", "v", "i", "c", "e", "s", " ",
                   "d", "e", "s", "c", "r", "i", "b", "e", "d", " ", "h",
                   "e", "r", "e", "i", "n", ".">>,
        url |-> ""] >>

\* re.findall(r"\S+\s*", s): every run of other characters with the whitespace
\* that follows it; whitespace at the start of s belongs to no token.
RECURSIVE findall_from(_, _, _)
findall_from(s, token, acc) ==
    IF s = <<>>
    THEN IF token = <<>> THEN acc ELSE Append(acc, token)
    ELSE IF Head(s) \in Whitespace
         THEN IF token = <<>>
              THEN findall_from(Tail(s), <<>>, acc)
              ELSE findall_from(Tail(s), Append(token, Head(s)), acc)
         ELSE IF token # <<>> /\ token[Len(token)] \in Whitespace
              THEN findall_from(Tail(s), <<Head(s)>>, Append(acc, token))
              ELSE findall_from(Tail(s), Append(token, Head(s)), acc)

\* A long text is cut where a token ends (whitespace followed by another
\* character), which gives the same tokens.
RECURSIVE findall_tokens(_)
findall_tokens(s) ==
    LET ends == {i \in 1 .. (Len(s) - 1) :
                    /\ s[i] \in Whitespace /\ s[i + 1] \notin Whitespace
                    /\ i > Len(s) \div 4 /\ i < Len(s) - Len(s) \div 4} IN
    IF Len(s) <= 24 \/ ends = {}
    THEN findall_from(s, <<>>, <<>>)
    ELSE LET cut == CHOOSE i \in ends : TRUE IN
         findall_tokens(SubSeq(s, 1, cut)) \o findall_tokens(SubSeq(s, cut + 1, Len(s)))

RECURSIVE tokens_of_segments(_)
tokens_of_segments(segs) ==
    IF segs = <<>> THEN <<>>
    ELSE LET found == findall_tokens(Head(segs).text) IN
         [i \in DOMAIN found |-> [token |-> found[i], url |-> Head(segs).url]]
             \o tokens_of_segments(Tail(segs))

rich_tokens == tokens_of_segments(segments)

max_text_width == (PageWidth - 72) * 100
left_x == 36 * 100
right_x == left_x + max_text_width
line_height == 12

paragraph_lines_first == <<FALSE>>

\* line == "" for each of the paragraph_lines.
paragraph_lines == <<FALSE, FALSE, FALSE, FALSE, TRUE, FALSE, FALSE>>

signature_height_short == line_height
signature_height == 132

\* The gaps above the By, Name, Title and Date lines of the signature block.
signature_steps == <<28, 24, 24, 24>>

\* The font and the fill color a text of each kind is meant to be drawn in.
IntendedFont(kind) ==
    IF kind \in {"heading", "signature_title"} THEN <<font_bold, 12>>
    ELSE <<font_regular, 10>>

IntendedFill(kind, url) == IF kind = "token" /\ url # "" THEN "link" ELSE "black"

\* A text as drawString draws it: where, on which page, in which font and color.
DrawnText(kind, cv, x, x_end, at_y, index, url) ==
    [made |-> TRUE, kind |-> kind, page |-> cv.page, x |-> x, x_end |-> x_end,
     y |-> at_y, font |-> cv.font, fill |-> cv.fill, index |-> index, url |-> url,
     first_on_page |-> (~drawn_text.made \/ drawn_text.page # cv.page),
     after |-> IF drawn_text.made
               THEN [made |-> TRUE, kind |-> drawn_text.kind, page |-> drawn_text.page,
                     x_end |-> drawn_text.x_end, y |-> drawn_text.y,
                     index |-> drawn_text.index]
               ELSE [made |-> FALSE]]

Called(required_height) ==
    [made |-> TRUE, required_height |-> required_height, cv |-> c, y |-> y]

(***************************************************************************)
(* SpecRender: create_branded_pdf, one action per drawn block, from the    *)
(* header to the call of draw_agreement_section.  The services are the     *)
(* sorted rows of up to MaxTableRows line items, the addresses every text  *)
(* of up to MaxAddrLen characters.                                         *)
(***************************************************************************)
NotApplicable == Str(NA)

BaseRows ==
    << [service |-> Str(AnalysisAssignment),
        annual_usage_commitment |-> Str(<<"1", "0", "0", "0", "0", "0", "0">>),
        unit |-> Str(<<"B", "i", "l", "l", "a", "b", "l", "e", " ", "E", "v",
                       "e", "n", "t", "s">>),
        annual_service_fee |-> Num(123450)],
       [service |-> Str(FeatureGates), annual_usage_commitment |-> NotApplicable,
        unit |-> NotApplicable, annual_service_fee |-> Num(6525)],
       [service |-> Str(SessionReplay), annual_usage_commitment |-> NotApplicable,
        unit |-> Str(<<"S", "e", "s", "s", "i", "o", "n", "s">>),
        annual_service_fee |-> Num(50000000)],
       [service |-> Str(<<"E", "n", "t", "e", "r", "p", "r", "i", "s", "e",
                          " ", "S", "u", "p", "p", "o", "r", "t">>),
        annual_usage_commitment |-> NotApplicable, unit |-> NotApplicable,
        annual_service_fee |-> Num(0)] >>

RowList(n, k) == [i \in 1 .. n |-> BaseRows[((i + k - 1) % Len(BaseRows)) + 1]]

ServiceLists ==
    {sort_rows_by_fee_desc(RowList(n, k)) : n \in 0 .. MaxTableRows, k \in {0, 1}}

AddressTexts == {NoText} \cup {Txt(a) : a \in SeqsUpTo({"x", "\n"}, MaxAddrLen)}

InitRender ==
    /\ pc = "header"
    /\ c = NewCanvas
    /\ y = 0
    /\ lastCall = NoCall
    /\ order \in [used : {TRUE},
                  expiration_date : BOOLEAN,
                  addendum : BOOLEAN,
                  shipping_address : AddressTexts,
                  billing_address : {Txt(<<"x">>), Txt([i \in 1 .. MaxAddrLen |-> "\n"] \o <<"x">>)},
                  usage_terms : {EmptyText},
                  terms_type : {"Online"},
                  msa_execution_date : {<<>>}]
    /\ services \in ServiceLists
    /\ warehouse_type \in {"Cloud", "Credit/Usage Based"}
    /\ table = NoTable
    /\ y_cursor = 0
    /\ idx = 0
    /\ para = 0
    /\ unit = NoUnit
    /\ period_draws = 0
    /\ total_text = <<>>
    /\ paragraph_blocks = <<>>
    /\ WrapIdle
    /\ SortIdle
    /\ LaterIdle

Drawn(kind, top, bottom, checked, cv) ==
    [kind |-> kind, page |-> cv.page, top |-> top, bottom |-> bottom, checked |-> checked]

max_addr_lines ==
    Max(Len(preserve_input_lines(order.shipping_address)),
        Len(preserve_input_lines(order.billing_address)))

\* The header of the first page, down to the divider; y starts 40 below it.
DrawHeader ==
    /\ pc = "header"
    /\ LET header_line_y ==
               (PageHeight - 112) - (IF order.expiration_date THEN 16 ELSE 0)
                                  - (IF order.addendum THEN 16 ELSE 0)
           divider_y == header_line_y - 18 IN
       /\ y' = divider_y - 40
       /\ unit' = Drawn("header", PageHeight - 82, divider_y, FALSE, c)
    /\ c' = setFillColor(
                IF order.addendum THEN setFont(c, font_regular, 11)
                ELSE IF order.expiration_date THEN setFont(c, font_italic, 10)
                ELSE setFont(c, font_bold, 12),
                "black")
    /\ pc' = "customer"
    /\ UNCHANGED <<order, services, warehouse_type, table, y_cursor, idx, para,
                   period_draws, total_text, paragraph_blocks>>
    /\ UNCHANGED exceptRender

\* Customer Information: heading, contact lines and the address labels.
DrawCustomerInfo ==
    /\ pc = "customer"
    /\ y' = ((((y - 26) - 26) - 16) - 24) - 14
    /\ unit' = Drawn("customer", y, (((y - 26) - 26) - 16) - 24, FALSE, c)
    /\ c' = setFont(setFillColor(c, "black"), font_regular, 10)
    /\ idx' = 0
    /\ pc' = "address"
    /\ UNCHANGED <<order, services, warehouse_type, table, y_cursor, para,
                   period_draws, total_text, paragraph_blocks>>
    /\ UNCHANGED exceptRender

\* One line of the two addresses.
DrawAddressLine ==
    /\ pc = "address"
    /\ idx < max_addr_lines
    /\ unit' = Drawn("address", y, y, FALSE, c)
    /\ y' = y - 12
    /\ idx' = idx + 1
    /\ UNCHANGED <<pc, c, order, services, warehouse_type, table, y_cursor, para,
                   period_draws, total_text, paragraph_blocks>>
    /\ UNCHANGED exceptRender

\* The divider under the addresses and the Terms section.
DrawTerms ==
    /\ pc = "address"
    /\ idx = max_addr_lines
    /\ y' = (((((y - 6) - 23) - 25) - 16) - 16) - 12
    /\ unit' = Drawn("terms", (y - 6) - 23, (((((y - 6) - 23) - 25) - 16) - 16) - 12,
                     FALSE, c)
    /\ c' = setFont(setFillColor(c, "black"), font_regular, 10)
    /\ pc' = "services"
    /\ UNCHANGED <<order, services, warehouse_type, table, y_cursor, idx, para,
                   period_draws, total_text, paragraph_blocks>>
    /\ UNCHANGED exceptRender

\* The Services heading and the computation of the table layout.
DrawServicesHeading ==
    /\ pc = "services"
    /\ y' = y - 26
    /\ unit' = Drawn("heading", y - 26, y - 26, FALSE, c)
    /\ c' = setFont(setFillColor(c, "black"), font_bold, 12)
    /\ table' = layout_table(services, warehouse_type, y - 26)
    /\ pc' = "table_header"
    /\ UNCHANGED <<order, services, warehouse_type, y_cursor, idx, para,
                   period_draws, total_text, paragraph_blocks>>
    /\ UNCHANGED exceptRender

\* The header row, its column lines and the divider above the total row.
DrawTableHeader ==
    /\ pc = "table_header"
    /\ unit' = Drawn("table_header", table.top, table.top - table.head_h, FALSE, c)
    /\ c' = setFont(setFillColor(c, "white"), font_bold, 10)
    /\ pc' = "merged"
    /\ UNCHANGED <<y, order, services, warehouse_type, table, y_cursor, idx, para,
                   period_draws, total_text, paragraph_blocks>>
    /\ UNCHANGED exceptRender

\* The merged first column: the period text, drawn centred over all rows.
DrawMergedPeriod ==
    /\ pc = "merged"
    /\ LET merged_top == table.top - table.head_h
           merged_bottom == table.y_total_divider IN
       unit' = Drawn("period", merged_top, merged_bottom, FALSE, c)
    /\ c' = setFont(setFillColor(c, "black"), font_regular, 10)
    /\ period_draws' = period_draws + 1
    /\ y_cursor' = table.top - table.head_h
    /\ idx' = 0
    /\ pc' = "rows"
    /\ UNCHANGED <<y, order, services, warehouse_type, table, para, total_text,
                   paragraph_blocks>>
    /\ UNCHANGED exceptRender

next_row_top_fixed(row_top, row_h) == row_top - 22

\* y_cursor -= row_h
next_row_top(row_top, row_h) == row_top - row_h

\* One row of the table: the cells of column_spec[1:].
DrawRow ==
    /\ pc = "rows"
    /\ idx < Len(table.services)
    /\ LET row_top == y_cursor
           row_h == table.row_heights[idx + 1]
           keys == row_cell_keys(table.column_spec) IN
       /\ unit' = Drawn("row", row_top, row_top - row_h, FALSE, c)
       /\ period_draws' = period_draws
              + Cardinality({i \in DOMAIN keys : keys[i] = "subscription_period"})
       /\ y_cursor' = next_row_top(y_cursor, row_h)
    /\ idx' = idx + 1
    /\ UNCHANGED <<pc, c, y, order, services, warehouse_type, table, para, total_text,
                   paragraph_blocks>>
    /\ UNCHANGED exceptRender

\* The total row.
DrawTotalRow ==
    /\ pc = "rows"
    /\ idx = Len(table.services)
    /\ total_text' = fmt_money(table_total(table.services))
    /\ unit' = Drawn("total", table.y_total_divider, table.y_total_divider - total_row_h,
                     FALSE, c)
    /\ c' = setFont(setFillColor(c, "black"), font_regular, 10)
    /\ pc' = "footer"
    /\ UNCHANGED <<y, order, services, warehouse_type, table, y_cursor, idx, para,
                   period_draws, paragraph_blocks>>
    /\ UNCHANGED exceptRender

\* The two footer lines and the divider under them.
DrawFooter ==
    /\ pc = "footer"
    /\ LET y_after == (table.top - table.table_h) - 22 IN
       /\ unit' = Drawn("footer", y_after, y_after - 14, FALSE, c)
       /\ y' = (y_after - 14) - 10
    /\ c' = setFont(setFillColor(c, "black"), font_regular, 10)
    /\ pc' = "usage_heading"
    /\ UNCHANGED <<order, services, warehouse_type, table, y_cursor, idx, para,
                   period_draws, total_text, paragraph_blocks>>
    /\ UNCHANGED exceptRender

\* The usage terms are put together and their heading is drawn.
DrawUsageHeading ==
    /\ pc = "usage_heading"
    /\ paragraph_blocks' = usage_text(order, table.services, warehouse_type)
    /\ unit' = Drawn("heading", y - 23, y - 23, FALSE, c)
    /\ y' = (y - 23) - 20
    /\ c' = setFillColor(setFont(c, font_regular, 10), "black")
    /\ para' = 1
    /\ idx' = 0
    /\ pc' = "usage"
    /\ UNCHANGED <<order, services, warehouse_type, table, y_cursor,
                   period_draws, total_text>>
    /\ UNCHANGED exceptRender

\* A blank paragraph of the usage terms.
SkipBlankParagraph ==
    /\ pc = "usage"
    /\ para <= Len(paragraph_blocks)
    /\ paragraph_blocks[para] = 0
    /\ y' = y - 7
    /\ para' = para + 1
    /\ UNCHANGED <<pc, c, order, services, warehouse_type, table, y_cursor, idx, unit,
                   period_draws, total_text, paragraph_blocks>>
    /\ UNCHANGED exceptRender

usage_line_breaks_below(y_after) == y_after < 40

\* if y_after <= 40, asked before each line of the usage terms.
usage_line_breaks(y_after) == y_after <= 40

\* One wrapped line of a usage-terms paragraph, on a new page when the
\* cursor has reached the bottom margin.
DrawUsageLine ==
    /\ pc = "usage"
    /\ para <= Len(paragraph_blocks)
    /\ paragraph_blocks[para] > 0
    /\ LET break == usage_line_breaks(y)
           cv == IF break
                 THEN setFont(setFillColor(showPage(c), "black"), font_regular, 10)
                 ELSE c
           line_y == IF break THEN PageHeight - 56 ELSE y IN
       /\ c' = cv
       /\ unit' = Drawn("usage_line", line_y, line_y, TRUE, cv)
       /\ y' = line_y - 12
    /\ IF idx + 1 = paragraph_blocks[para]
       THEN para' = para + 1 /\ idx' = 0
       ELSE para' = para /\ idx' = idx + 1
    /\ UNCHANGED <<pc, order, services, warehouse_type, table, y_cursor,
                   period_draws, total_text, paragraph_blocks>>
    /\ UNCHANGED exceptRender

\* The divider under the usage terms and the call of draw_agreement_section.
CallAgreementSection ==
    /\ pc = "usage"
    /\ para > Len(paragraph_blocks)
    /\ y' = (y - 5) - 23
    /\ unit' = Drawn("divider", y - 5, y - 5, FALSE, c)
    /\ agreement_section' = agreement_section_of(order)
    /\ pc' = "agreement"
    /\ UNCHANGED <<c, order, services, warehouse_type, table, y_cursor, idx, para,
                   period_draws, total_text, paragraph_blocks>>
    /\ UNCHANGED <<lastCall, wrapVars, sortVars, wrapped_agreement, cursor_x, cursor_y,
                   drawn_text, signature, links, restVars>>

NextRender ==
    \/ DrawHeader
    \/ DrawCustomerInfo
    \/ DrawAddressLine
    \/ DrawTerms
    \/ DrawServicesHeading
    \/ DrawTableHeader
    \/ DrawMergedPeriod
    \/ DrawRow
    \/ DrawTotalRow
    \/ DrawFooter
    \/ DrawUsageHeading
    \/ SkipBlankParagraph
    \/ DrawUsageLine
    \/ CallAgreementSection

SpecRender == InitRender /\ [][NextRender]_vars

AtomicUnits == {"address", "row", "usage_line"}
AfterMerged == {"rows", "footer", "usage_heading", "usage", "agreement"}
AfterTotal == {"footer", "usage_heading", "usage", "agreement"}

\* C3: no atomic unit (a table row, an address line, a wrapped text line) is
\* drawn partly or wholly below the bottom margin of its page, for any number
\* of line items and lines.
C3_NoUnitBelowMargin ==
    unit.kind \in AtomicUnits => unit.bottom >= min_bottom_margin

RECURSIVE SumOfFees(_)
SumOfFees(rs) ==
    IF rs = <<>> THEN 0 ELSE Head(rs).annual_service_fee.v + SumOfFees(Tail(rs))

\* A currency text: a dollar sign, the whole dollars in groups of three
\* digits separated by commas, a point and two digits.
IsCurrency(t) ==
    /\ Len(t) >= 5
    /\ t[1] = "$"
    /\ t[Len(t) - 2] = "."
    /\ IsDigit(t[Len(t) - 1]) /\ IsDigit(t[Len(t)])
    /\ LET whole == SubSeq(t, 2, Len(t) - 3) IN
       /\ \A i \in DOMAIN whole :
             IF (Len(whole) - i + 1) % 4 = 0 THEN whole[i] = "," ELSE IsDigit(whole[i])
       /\ whole[1] # ","
       /\ whole[1] = "0" => Len(whole) = 1

CurrencyCents(t) ==
    100 * StrToNat(remove(SubSeq(t, 2, Len(t) - 3), ","))
        + StrToNat(SubSeq(t, Len(t) - 1, Len(t)))

C10_PeriodDrawnOnce ==
    /\ period_draws <= 1
    /\ pc \in AfterMerged => period_draws = 1

\* C10 witness: the table of twenty line items is complete, the period text
\* drawn once.
C10_Witness ==
    /\ pc \in AfterTotal
    /\ Len(services) = 20
    /\ period_draws = 1

(***************************************************************************)
(* draw_agreement_section: its steps.                                      *)
(***************************************************************************)
exceptAgreement ==
    <<wrapVars, sortVars, order, services, warehouse_type, table, y_cursor, para, unit,
      period_draws, total_text, paragraph_blocks, restVars>>

\* ensure_space(24) and the heading "Agreement".
AgreementHeading ==
    /\ pc = "agreement"
    /\ LET r == ensure_space(c, y, 24)
           cv == setFont(setFillColor(r.cv, "black"), font_bold, 12) IN
       /\ c' = cv
       /\ drawn_text' = DrawnText("heading", cv, left_x, left_x, r.y, 0, "")
       /\ y' = r.y - 20
    /\ lastCall' = Called(24)
    /\ pc' = "agreement_text"
    /\ UNCHANGED <<idx, agreement_section, wrapped_agreement, cursor_x, cursor_y, signature,
                   links>>
    /\ UNCHANGED exceptAgreement

\* ensure_space(14), the font of the text, and the choice between the rich
\* text with links and the plain wrapped text.
AgreementText ==
    /\ pc = "agreement_text"
    /\ LET r == ensure_space(c, y, 14) IN
       /\ c' = setFont(r.cv, font_regular, 10)
       /\ y' = r.y
       /\ IF is_rich(agreement_section)
          THEN /\ cursor_x' = left_x
               /\ cursor_y' = r.y
               /\ pc' = "rich"
               /\ UNCHANGED wrapped_agreement
          ELSE /\ wrapped_agreement' =
                      wrap_text_to_width(Txt(agreement_section), max_text_width)
               /\ pc' = "plain"
               /\ UNCHANGED <<cursor_x, cursor_y>>
    /\ lastCall' = Called(14)
    /\ idx' = 0
    /\ UNCHANGED <<agreement_section, drawn_text, signature, links>>
    /\ UNCHANGED exceptAgreement

\* token_w of a token of the rich text.
token_w(token) == stringWidth(token)

token_overflows_never(x, token) == FALSE

\* The token does not fit on the line, which already holds a token.
token_overflows(x, token) == x + token_w(token) > right_x /\ x > left_x

link_rect_to_margin(x, cy, w) ==
    [x1 |-> x, y1 |-> cy - 1, x2 |-> right_x, y2 |-> cy + 10]

\* The rect of a link: the token from just below its baseline to its top.
link_rect(x, cy, w) == [x1 |-> x, y1 |-> cy - 1, x2 |-> x + w, y2 |-> cy + 10]

\* c.linkURL(url, rect, relative=0, thickness=0): one more region on the
\* page of the canvas.
linkURL(regions, cv, url, rect) ==
    Append(regions, [url |-> url, page |-> cv.page, rect |-> rect])

wrapped_line_near_margin(cy) == cy <= min_bottom_margin + line_height

\* The cursor of the new line is at or below the bottom margin.
wrapped_line_breaks(cy) == cy <= 40

\* One token of the rich text: a new line when it does not fit, a new page
\* when the new line is at or below the margin, then the token itself.
DrawRichToken ==
    /\ pc = "rich"
    /\ idx < Len(rich_tokens)
    /\ LET token == rich_tokens[idx + 1].token
           url == rich_tokens[idx + 1].url
           wraps == token_overflows(cursor_x, token)
           breaks == wraps /\ wrapped_line_breaks(cursor_y - line_height)
           at_x == IF wraps THEN left_x ELSE cursor_x
           at_y == IF breaks THEN PageHeight - 56
                   ELSE IF wraps THEN cursor_y - line_height ELSE cursor_y
           broken == IF breaks
                     THEN setFont(setFillColor(showPage(c), "black"), font_regular, 10)
                     ELSE c
           cv == setFillColor(broken, IF url # "" THEN "link" ELSE "black") IN
       /\ c' = cv
       /\ drawn_text' = DrawnText("token", cv, at_x, at_x + token_w(token), at_y,
                                  idx + 1, url)
       /\ links' = IF url # ""
                   THEN linkURL(links, cv, url, link_rect(at_x, at_y, token_w(token)))
                   ELSE links
       /\ cursor_x' = at_x + token_w(token)
       /\ cursor_y' = at_y
    /\ idx' = idx + 1
    /\ lastCall' = NoCall
    /\ UNCHANGED <<pc, y, agreement_section, wrapped_agreement, signature>>
    /\ UNCHANGED exceptAgreement

\* After the last token: black again, the cursor below the text, and the
\* font of the closing paragraph.
EndRichText ==
    /\ pc = "rich"
    /\ idx = Len(rich_tokens)
    /\ c' = setFont(setFillColor(c, "black"), font_regular, 10)
    /\ y' = cursor_y - 24
    /\ idx' = 0
    /\ lastCall' = NoCall
    /\ pc' = "paragraph"
    /\ UNCHANGED <<agreement_section, wrapped_agreement, cursor_x, cursor_y, drawn_text,
                   signature, links>>
    /\ UNCHANGED exceptAgreement

\* One line of the plain text: ensure_space(12), the line, the cursor down.
DrawPlainLine ==
    /\ pc = "plain"
    /\ idx < Len(wrapped_agreement)
    /\ LET r == ensure_space(c, y, 12) IN
       /\ c' = r.cv
       /\ drawn_text' = DrawnText("line", r.cv, left_x,
                                  left_x + stringWidth(wrapped_agreement[idx + 1]),
                                  r.y, idx + 1, "")
       /\ y' = r.y - 12
    /\ lastCall' = Called(12)
    /\ idx' = idx + 1
    /\ UNCHANGED <<pc, agreement_section, wrapped_agreement, cursor_x, cursor_y, signature,
                   links>>
    /\ UNCHANGED exceptAgreement

\* After the last plain line: the gap and the font of the closing paragraph.
EndPlainText ==
    /\ pc = "plain"
    /\ idx = Len(wrapped_agreement)
    /\ c' = setFont(c, font_regular, 10)
    /\ y' = y - 12
    /\ idx' = 0
    /\ lastCall' = NoCall
    /\ pc' = "paragraph"
    /\ UNCHANGED <<agreement_section, wrapped_agreement, cursor_x, cursor_y, drawn_text,
                   signature, links>>
    /\ UNCHANGED exceptAgreement

\* One of the paragraph_lines: a gap for the empty one, else ensure_space(12),
\* the font and the line.
DrawParagraphLine ==
    /\ pc = "paragraph"
    /\ idx < Len(paragraph_lines)
    /\ IF paragraph_lines[idx + 1]
       THEN /\ y' = y - 12
            /\ lastCall' = NoCall
            /\ UNCHANGED <<c, drawn_text>>
       ELSE LET r == ensure_space(c, y, 12)
                cv == setFont(r.cv, font_regular, 10) IN
            /\ c' = cv
            /\ drawn_text' = DrawnText("paragraph", cv, left_x, left_x, r.y, idx + 1, "")
            /\ y' = r.y - 12
            /\ lastCall' = Called(12)
    /\ idx' = idx + 1
    /\ UNCHANGED <<pc, agreement_section, wrapped_agreement, cursor_x, cursor_y, signature,
                   links>>
    /\ UNCHANGED exceptAgreement

\* The signature block begins: the gap, ensure_space(132), the rule and the
\* titles of the two parties.
DrawSignatureTitles ==
    /\ pc = "paragraph"
    /\ idx = Len(paragraph_lines)
    /\ LET r == ensure_space(c, y - 30, signature_height)
           cv == setFont(r.cv, font_bold, 12) IN
       /\ c' = cv
       /\ y' = r.y
       /\ drawn_text' = DrawnText("signature_title", cv, left_x, left_x, r.y, 0, "")
       /\ signature' = [started |-> TRUE, complete |-> FALSE, pages |-> {cv.page},
                        top |-> r.y + 23, lowest |-> r.y]
       /\ lastCall' = [made |-> TRUE, required_height |-> signature_height,
                       cv |-> c, y |-> y - 30]
    /\ idx' = 0
    /\ pc' = "signature"
    /\ UNCHANGED <<agreement_section, wrapped_agreement, cursor_x, cursor_y, links>>
    /\ UNCHANGED exceptAgreement

\* The By, Name, Title and Date lines of both columns.
DrawSignatureLine ==
    /\ pc = "signature"
    /\ idx < Len(signature_steps)
    /\ LET at_y == y - signature_steps[idx + 1]
           cv == IF idx = 0 THEN setFont(c, font_regular, 10) ELSE c IN
       /\ c' = cv
       /\ y' = at_y
       /\ drawn_text' = DrawnText("signature_line", cv, left_x, left_x, at_y, idx + 1, "")
       /\ signature' = [signature EXCEPT !.pages = @ \cup {cv.page},
                                         !.lowest = at_y - 2,
                                         !.complete = (idx + 1 = Len(signature_steps))]
    /\ idx' = idx + 1
    /\ lastCall' = NoCall
    /\ UNCHANGED <<pc, agreement_section, wrapped_agreement, cursor_x, cursor_y, links>>
    /\ UNCHANGED exceptAgreement

\* return y
AgreementReturn ==
    /\ pc = "signature"
    /\ idx = Len(signature_steps)
    /\ pc' = "returned"
    /\ lastCall' = NoCall
    /\ UNCHANGED <<c, y, idx, agreeVars>>
    /\ UNCHANGED exceptAgreement

NextAgreement ==
    \/ AgreementHeading
    \/ AgreementText
    \/ DrawRichToken
    \/ EndRichText
    \/ DrawPlainLine
    \/ EndPlainText
    \/ DrawParagraphLine
    \/ DrawSignatureTitles
    \/ DrawSignatureLine
    \/ AgreementReturn

(***************************************************************************)
(* SpecAgreement: draw_agreement_section called with any start_y, on a     *)
(* canvas in the state create_branded_pdf leaves it in.                    *)
(***************************************************************************)
MsaDates == {<<>>, <<"0", "1", "/", "0", "2", "/", "2", "0", "2", "6">>}

AgreementSections ==
    {agreement_section_of([terms_type |-> t, msa_execution_date |-> d]) :
         t \in {"MSA", "Online"}, d \in MsaDates}

AgreementStartYs == {s \in StartYs : s <= 320 \/ s % 16 = 0}

InitAgreement ==
    /\ pc = "agreement"
    /\ c = setFont(NewCanvas, font_regular, 10)
    /\ y \in AgreementStartYs
    /\ lastCall = NoCall
    /\ agreement_section \in AgreementSections
    /\ wrapped_agreement = <<>>
    /\ cursor_x = 0
    /\ cursor_y = 0
    /\ drawn_text = NoDrawnText
    /\ signature = NoSignature
    /\ links = <<>>
    /\ WrapIdle
    /\ SortIdle
    /\ RenderIdle
    /\ RestIdle

SpecAgreement == InitAgreement /\ [][NextAgreement]_vars

(***************************************************************************)
(* SpecDocument: one whole render, create_branded_pdf with its call of     *)
(* draw_agreement_section and the final save.  A render never waits, so    *)
(* every step that is enabled is taken.                                    *)
(***************************************************************************)
DocumentOrders ==
    [used : {TRUE},
     expiration_date : BOOLEAN,
     addendum : BOOLEAN,
     shipping_address : {Txt(<<"x">>)},
     billing_address : {Txt(<<"x">>)},
     usage_terms : {EmptyText},
     terms_type : {"Online"},
     msa_execution_date : {<<>>}]
    \cup
    [used : {TRUE},
     expiration_date : BOOLEAN,
     addendum : BOOLEAN,
     shipping_address : {Txt(<<"x">>)},
     billing_address : {Txt(<<"x">>)},
     usage_terms : {EmptyText},
     terms_type : {"MSA"},
     msa_execution_date : MsaDates]

\* No line item, one, the six of the wizard, and tables that leave the page.
DocumentRowCounts == {0, 1, 6, 13, MaxTableRows}

InitDocument ==
    /\ pc = "header"
    /\ c = NewCanvas
    /\ y = 0
    /\ lastCall = NoCall
    /\ order \in DocumentOrders
    /\ services \in {sort_rows_by_fee_desc(RowList(n, 0)) : n \in DocumentRowCounts}
    /\ warehouse_type \in {"Cloud", "Credit/Usage Based"}
    /\ table = NoTable
    /\ y_cursor = 0
    /\ idx = 0
    /\ para = 0
    /\ unit = NoUnit
    /\ period_draws = 0
    /\ total_text = <<>>
    /\ paragraph_blocks = <<>>
    /\ WrapIdle
    /\ SortIdle
    /\ LaterIdle

\* c.save(), and the bytes are returned.
Save ==
    /\ pc = "returned"
    /\ pc' = "saved"
    /\ UNCHANGED <<flowVars, wrapVars, sortVars, renderVars, laterVars>>

NextDocument == NextRender \/ NextAgreement \/ Save

\* The steps that lay out the table, add up the total, put the usage terms
\* together or wrap the agreement text, as moves of the position: each is
\* enabled whenever the render is at its position.
ComputingSteps ==
    \/ pc = "services" /\ pc' = "table_header"
    \/ pc = "rows" /\ idx = Len(table.services) /\ pc' = "footer"
    \/ pc = "usage_heading" /\ pc' = "usage"
    \/ pc = "agreement_text" /\ pc' \in {"rich", "plain"}

DrawingSteps ==
    \/ DrawHeader
    \/ DrawCustomerInfo
    \/ DrawAddressLine
    \/ DrawTerms
    \/ DrawTableHeader
    \/ DrawMergedPeriod
    \/ DrawRow
    \/ DrawFooter
    \/ SkipBlankParagraph
    \/ DrawUsageLine
    \/ CallAgreementSection
    \/ AgreementHeading
    \/ DrawRichToken
    \/ EndRichText
    \/ DrawPlainLine
    \/ EndPlainText
    \/ DrawParagraphLine
    \/ DrawSignatureTitles
    \/ DrawSignatureLine
    \/ AgreementReturn
    \/ Save

SpecDocument ==
    InitDocument /\ [][NextDocument]_vars /\ WF_vars(DrawingSteps) /\ WF_pc(ComputingSteps)

\* The sections in the order of the document; a position of the render
\* belongs to the section drawn last.
SectionOrder ==
    <<"none", "header", "customer information", "terms", "services table", "usage terms",
      "agreement", "finalized">>

SectionRank(p) ==
    CASE p = "header" -> 1
      [] p = "customer" -> 2
      [] p = "address" -> 3
      [] p = "services" -> 4
      [] p \in {"table_header", "merged", "rows", "footer", "usage_heading"} -> 5
      [] p \in {"usage", "agreement"} -> 6
      [] p \in {"agreement_text", "rich", "plain", "paragraph", "signature", "returned"} -> 7
      [] p = "saved" -> 8

\* What is drawn when a section is left: all of it.
SectionsComplete ==
    /\ pc = "services" => unit.kind = "terms" /\ idx = max_addr_lines
    /\ pc = "usage_heading" => unit.kind = "footer" /\ y_cursor = table.y_total_divider
    /\ pc = "agreement" => para > Len(paragraph_blocks)
    /\ (pc = "signature" /\ idx = 0) =>
           drawn_text.after.kind = "paragraph" /\ drawn_text.after.index = 7
    /\ pc \in {"returned", "saved"} =>
           /\ signature.complete
           /\ y = signature.lowest + 2

\* C11: every render draws the sections in the one fixed order header,
\* customer information, terms, services table, usage terms, agreement and
\* signature block; a section starts only when the one before it is drawn
\* completely, all on the one cursor; and the render ends: the document is
\* saved after the agreement section.
C11_FixedSectionOrder ==
    /\ [][SectionRank(pc') \in {SectionRank(pc), SectionRank(pc) + 1}]_pc
    /\ []SectionsComplete
    /\ <>(pc = "saved")

\* C11 witness: a saved document of several pages with a complete signature
\* block after a table of line items.
C11_Witness ==
    /\ pc = "saved"
    /\ c.page >= 2
    /\ signature.complete
    /\ Len(services) >= 6
    /\ period_draws = 1


(***************************************************************************)
(* main: the four-step wizard.  The dates it handles are records of year,  *)
(* month and day; the strings it keeps them in are written and read as the *)
(* code writes and reads them.                                             *)
(***************************************************************************)
Date(year, month, day) == [year |-> year, month |-> month, day |-> day]

\* date.today()
today == Date(2026, 2, 10)

is_leap(year) == (year % 4 = 0 /\ year % 100 # 0) \/ year % 400 = 0

days_in_month(year, month) ==
    IF month = 2 THEN (IF is_leap(year) THEN 29 ELSE 28)
    ELSE IF month \in {4, 6, 9, 11} THEN 30 ELSE 31

\* first_of_month(d)
first_of_month(d) == Date(d.year, d.month, 1)

\* add_months(d, months)
add_months_same_year(d, months) ==
    LET month_index == d.month - 1 + months IN
    Date(d.year, (month_index % 12) + 1, 1)

add_months(d, months) ==
    LET month_index == d.month - 1 + months IN
    Date(d.year + (month_index \div 12), (month_index % 12) + 1, 1)

\* d - timedelta(days=1)
day_before(d) ==
    IF d.day > 1 THEN Date(d.year, d.month, d.day - 1)
    ELSE IF d.month > 1
         THEN Date(d.year, d.month - 1, days_in_month(d.year, d.month - 1))
         ELSE Date(d.year - 1, 12, 31)

\* compute_end_date(start, term_months)
compute_end_date(start, term_months) ==
    day_before(add_months(first_of_month(start), Max(1, term_months)))

\* display_date(d): d.strftime("%m/%d/%Y")
display_date(d) ==
    Pad(NatToStr(d.month), 2) \o <<"/">> \o Pad(NatToStr(d.day), 2) \o <<"/">>
        \o Pad(NatToStr(d.year), 4)

RECURSIVE split_on(_, _)
split_on(s, sep) ==
    LET i == IndexOf(s, sep) IN
    IF i = 0 THEN <<s>>
    ELSE <<SubSeq(s, 1, i - 1)>> \o split_on(SubSeq(s, i + 1, Len(s)), sep)

\* datetime.strptime(value, fmt).date() for the formats of three numbers:
\* %Y is four digits, %m and %d one or two; ok is FALSE where it raises.
strptime(value, sep, year_at, month_at, day_at) ==
    LET parts == split_on(value, sep)
        shaped ==
            /\ Len(parts) = 3
            /\ AllDigits(parts[year_at]) /\ Len(parts[year_at]) = 4
            /\ AllDigits(parts[month_at]) /\ Len(parts[month_at]) <= 2
            /\ AllDigits(parts[day_at]) /\ Len(parts[day_at]) <= 2
        year == StrToNat(parts[year_at])
        month == StrToNat(parts[month_at])
        day == StrToNat(parts[day_at])
    IN IF shaped /\ year >= 1 /\ month \in 1 .. 12 /\ day >= 1
            /\ day <= days_in_month(year, month)
       THEN [ok |-> TRUE, date |-> Date(year, month, day)]
       ELSE [ok |-> FALSE, date |-> first_of_month(today)]

\* parse_date(value)
parse_date(value) ==
    IF value = <<>> THEN first_of_month(today)
    ELSE LET iso == strptime(value, "-", 1, 2, 3)
             us == strptime(value, "/", 3, 1, 2)
             ymd == strptime(value, "/", 1, 2, 3)
         IN IF iso.ok THEN iso.date
            ELSE IF us.ok THEN us.date
            ELSE IF ymd.ok THEN ymd.date
            ELSE first_of_month(today)

(***************************************************************************)
(* OrderData, with the fields the wizard's checks read, and its defaults.  *)
(***************************************************************************)
NewLogo == <<"N", "e", "w", " ", "L", "o", "g", "o">>
ExpansionUpsell == <<"E", "x", "p", "a", "n", "s", "i", "o", "n", "/", "U",
                     "p", "s", "e", "l", "l">>
BankTransfer == <<"B", "a", "n", "k", " ", "T", "r", "a", "n", "s", "f",
                  "e", "r">>
AWSBilling == <<"A", "W", "S", " ", "B", "i", "l", "l", "i", "n", "g">>
Annual == <<"A", "n", "n", "u", "a", "l">>
Net30 == <<"N", "e", "t", " ", "3", "0">>
SameAsShipping == <<"S", "a", "m", "e", " ", "a", "s", " ", "s", "h", "i",
                    "p", "p", "i", "n", "g", " ", "a", "d", "d", "r", "e",
                    "s", "s">>

OrderData ==
    [account_name |-> <<>>,
     primary_contact_name |-> <<>>,
     primary_contact_email |-> <<>>,
     billing_email |-> <<>>,
     shipping_address |-> <<>>,
     billing_address |-> SameAsShipping,
     start_date |-> <<>>,
     subscription_term_months |-> 12,
     billing_frequency |-> Annual,
     payment_terms |-> Net30,
     payment_method |-> BankTransfer,
     billing_id |-> <<>>,
     opportunity_type |-> <<>>,
     addendum_effective_date |-> <<>>,
     terms_type |-> "Online",
     msa_execution_date |-> <<>>]

\* bool(s.strip())
filled(s) == strip(s) # <<>>

\* customer_fields_complete(order)
customer_fields_complete(o) ==
    LET upsell_ok ==
            o.opportunity_type # ExpansionUpsell \/ filled(o.addendum_effective_date)
    IN /\ filled(o.account_name)
       /\ filled(o.primary_contact_name)
       /\ filled(o.primary_contact_email)
       /\ filled(o.billing_email)
       /\ filled(o.shipping_address)
       /\ filled(o.billing_address)
       /\ filled(o.opportunity_type)
       /\ upsell_ok

\* terms_fields_complete(order, start_valid)
terms_fields_complete(o, start_valid) ==
    LET billing_id_ok == o.payment_method = BankTransfer \/ filled(o.billing_id)
    IN /\ start_valid
       /\ o.subscription_term_months >= 1
       /\ filled(o.billing_frequency)
       /\ filled(o.payment_terms)
       /\ filled(o.payment_method)
       /\ billing_id_ok

(***************************************************************************)
(* The products and the line items built from them.                        *)
(***************************************************************************)
AdvancedProductAnalytics == <<"A", "d", "v", "a", "n", "c", "e", "d", " ",
                              "P", "r", "o", "d", "u", "c", "t", " ", "A",
                              "n", "a", "l", "y", "t", "i", "c", "s">>
PlatformFee == <<"P", "l", "a", "t", "f", "o", "r", "m", " ", "F", "e",
                 "e">>
WarehouseNativeProduct == <<"W", "a", "r", "e", "h", "o", "u", "s", "e",
                            " ", "N", "a", "t", "i", "v", "e">>
BillableEvents == <<"B", "i", "l", "l", "a", "b", "l", "e", " ", "E", "v",
                    "e", "n", "t", "s">>
Sessions == <<"S", "e", "s", "s", "i", "o", "n", "s">>
Premium == <<"P", "r", "e", "m", "i", "u", "m">>
Standard == <<"S", "t", "a", "n", "d", "a", "r", "d">>

WAREHOUSE_TYPES == <<"Cloud", "Warehouse Native", "Credit/Usage Based">>
CLOUD_PRODUCTS ==
    <<FeatureGates, Experimentation, AdvancedProductAnalytics, PlatformFee, SessionReplay>>
WAREHOUSE_NATIVE_EXPERIMENTATION_OPTIONS == <<AnalysisOnly, AnalysisAssignment>>
WAREHOUSE_NATIVE_OTHER_PRODUCTS ==
    <<FeatureGates, AdvancedProductAnalytics, PlatformFee, SessionReplay>>
USAGE_BASED_REQUIRED_PRODUCTS == <<WarehouseNativeProduct, PlatformFee>>

DEFAULT_SERVICES ==
    << [subscription_period |-> Str(<<>>), service |-> Str(FeatureGates),
        annual_usage_commitment |-> Str(NA), unit |-> Str(NA),
        annual_service_fee |-> Num(0)],
       [subscription_period |-> Str(<<>>), service |-> Str(Experimentation),
        annual_usage_commitment |-> Str(<<>>), unit |-> Str(BillableEvents),
        annual_service_fee |-> Num(0)],
       [subscription_period |-> Str(<<>>), service |-> Str(AdvancedProductAnalytics),
        annual_usage_commitment |-> Str(<<>>), unit |-> Str(NA),
        annual_service_fee |-> Num(0)] >>

Elems(seq) == {seq[i] : i \in DOMAIN seq}

\* product_options_by_warehouse(warehouse_type)
product_options_by_warehouse(wt) ==
    IF wt = "Warehouse Native"
    THEN WAREHOUSE_NATIVE_OTHER_PRODUCTS \o WAREHOUSE_NATIVE_EXPERIMENTATION_OPTIONS
    ELSE IF wt \in {"Credit", "Credit/Usage Based", "Usage Based Pricing"}
         THEN USAGE_BASED_REQUIRED_PRODUCTS
         ELSE CLOUD_PRODUCTS

\* default_unit_for_service(service)
default_unit_for_service(service) ==
    IF service = Experimentation THEN BillableEvents
    ELSE IF service = SessionReplay THEN Sessions ELSE NA

\* is_experimentation_service(service, warehouse_type)
is_experimentation_service(service, wt) ==
    LET cloud_only == {Experimentation}
        warehouse_native_only == {AnalysisOnly, AnalysisAssignment}
    IN IF wt = "Cloud" THEN service \in cloud_only
       ELSE IF wt = "Warehouse Native" THEN service \in warehouse_native_only
       ELSE service \in (cloud_only \cup warehouse_native_only)

\* default_usage_for_service(service)
default_usage_for_service(service) ==
    IF is_experimentation_service(service, "") THEN <<>> ELSE NA

\* The row build_services_rows keeps for a service name: the last of the
\* existing rows with that name, or the empty dictionary.
existing_row(existing_rows, service_name) ==
    LET named == {i \in DOMAIN existing_rows :
                     /\ strip(str(existing_rows[i].service)) # <<>>
                     /\ strip(str(existing_rows[i].service)) = service_name}
    IN IF named = {} THEN <<>>
       ELSE existing_rows[CHOOSE i \in named : \A j \in named : j <= i]

\* build_services_rows(selected_products, support_tier, existing_rows)
build_services_rows(selected_products, support_tier, existing_rows) ==
    LET existing == normalize_service_rows(existing_rows)
        name_of(product) ==
            IF product = Support THEN support_tier \o <<" ">> \o Support ELSE product
        built(service_name) ==
            LET kept == existing_row(existing, service_name) IN
            [subscription_period |-> Str(<<>>),
             service |-> Str(service_name),
             annual_usage_commitment |->
                 Str(format_usage_commitment_value(
                         get(kept, "annual_usage_commitment",
                             Str(default_usage_for_service(service_name))))),
             unit |-> Str(str(get(kept, "unit",
                                  Str(default_unit_for_service(service_name))))),
             annual_service_fee |->
                 Num(normalize_fee_value(get(kept, "annual_service_fee", Num(0))))]
    IN [i \in DOMAIN selected_products |-> built(name_of(selected_products[i]))]

\* rows_from_editor(value), for a list
rows_from_editor(value) == normalize_service_rows(value)

\* is_whole_number(value)
is_whole_number(s) == AllDigits(strip(remove(s, ",")))

\* is_numeric_amount(value)
is_numeric_amount(s) ==
    LET cleaned == cleaned_amount(s) IN
    cleaned # <<>> /\ parse_float(cleaned).ok

\* format_fee_display(value)
format_fee_display(value) == fmt_money(normalize_fee_value(value))

\* validate_services_rows(rows, warehouse_type): the errors of one row, and
\* of all rows, each with the index of its row.
row_errors(row, wt) ==
    LET service == strip(str(get(row, "service", Str(<<>>))))
        usage == strip(str(get(row, "annual_usage_commitment", Str(<<>>))))
        fee == strip(str(get(row, "annual_service_fee", Str(<<>>))))
    IN IF service = <<>> THEN {"Service is required."}
       ELSE (IF is_numeric_amount(fee) THEN {}
             ELSE {"Annual Service Fee is required and must be numeric."})
            \cup
            (IF wt \in {"Credit", "Credit/Usage Based"} /\ ~is_whole_number(usage)
             THEN {"Credits must be a whole number."}
             ELSE IF is_experimentation_service(service, wt)
             THEN (IF usage = <<>> \/ upper(usage) = NA \/ ~is_whole_number(usage)
                   THEN {"Annual Usage Commitment must be a whole number."}
                   ELSE {})
             ELSE IF upper(usage) # NA
             THEN {"Annual Usage Commitment must be N/A for non-experimentation products."}
             ELSE {})

validate_services_rows(rs, wt) ==
    UNION {{<<i, err>> : err \in row_errors(rs[i], wt)} : i \in DOMAIN rs}

(***************************************************************************)
(* main: one action is one run of the script, from the session state and   *)
(* the values the widgets return in that run to the session state the run  *)
(* leaves.  A button that is rendered disabled is not clicked.             *)
(***************************************************************************)
InitialSession ==
    [services_rows |-> DEFAULT_SERVICES,
     order_data |-> OrderData,
     form_step |-> 1,
     uploaded_once |-> FALSE,
     input_source_mode |-> "Q/A",
     previous_input_source_mode |-> "Q/A",
     warehouse_type |-> "Cloud",
     selected_products |-> <<>>,
     support_tier |-> Premium,
     product_signature |-> <<>>,
     warehouse_native_experimentation |-> <<>>,
     show_table_errors |-> FALSE]

\* A date input without a selection.
NoDate == Date(0, 0, 0)

\* x or y, for strings and for numbers
or_else(a, b) == IF a # <<>> THEN a ELSE b
or_else_number(a, b) == IF a # 0 THEN a ELSE b

\* What extract_order_fields finds in an uploaded document: a start date in
\* the middle of a month and a cloud payment method, without a billing id.
Extracted ==
    [OrderData EXCEPT !.account_name = <<"a">>,
                      !.start_date = <<"2", "0", "2", "6", "-", "0", "3",
                                       "-", "1", "5">>,
                      !.payment_method = AWSBilling]

\* Step 1, the values of its widgets.  Each set of inputs leaves at most one
\* of the fields empty or blank.
Blanks == {<<>>, <<" ">>}
CustomerTextFields ==
    {"account_name", "primary_contact_name", "primary_contact_email", "billing_email",
     "shipping_address", "billing_address"}
CompleteCustomerInput ==
    [input_source_mode |-> "Q/A",
     uploaded |-> FALSE,
     account_name |-> <<"a">>,
     primary_contact_name |-> <<"a">>,
     primary_contact_email |-> <<"a">>,
     same_email |-> FALSE,
     billing_email |-> <<"a">>,
     opportunity_type |-> NewLogo,
     selected_effective |-> NoDate,
     shipping_address |-> <<"a">>,
     same_address |-> FALSE,
     billing_address |-> <<"a">>]
CustomerInputs ==
    {CompleteCustomerInput}
    \cup {[CompleteCustomerInput EXCEPT ![f] = v] : f \in CustomerTextFields, v \in Blanks}
    \cup {[CompleteCustomerInput EXCEPT !.same_email = TRUE, !.billing_email = <<>>],
          [CompleteCustomerInput EXCEPT !.same_address = TRUE, !.billing_address = <<>>],
          [CompleteCustomerInput EXCEPT !.same_address = TRUE, !.shipping_address = <<>>]}
    \cup {[CompleteCustomerInput EXCEPT !.opportunity_type = ExpansionUpsell]}
    \cup {[CompleteCustomerInput EXCEPT !.input_source_mode = "Upload Document",
                                        !.uploaded = TRUE, !.opportunity_type = t] :
             t \in {<<>>, NewLogo}}

opportunity_options == {NewLogo, <<"R", "e", "n", "e", "w", "a", "l">>, ExpansionUpsell}

\* The order of a run of step 1 before its widgets: lines 1427-1464.
sourced_order(ss, inp) ==
    LET o == ss.order_data
        cleared == IF ss.previous_input_source_mode = "Q/A"
                      /\ inp.input_source_mode = "Upload Document"
                   THEN [o EXCEPT !.opportunity_type = <<>>] ELSE o
        e == Extracted
    IN IF inp.input_source_mode = "Upload Document"
       THEN IF inp.uploaded /\ ~ss.uploaded_once
            THEN [cleared EXCEPT
                     !.account_name = or_else(e.account_name, @),
                     !.primary_contact_name = or_else(e.primary_contact_name, @),
                     !.primary_contact_email = or_else(e.primary_contact_email, @),
                     !.billing_email = or_else(e.billing_email, @),
                     !.shipping_address = or_else(e.shipping_address, @),
                     !.billing_address = or_else(e.billing_address, @),
                     !.start_date = or_else(e.start_date, @),
                     !.subscription_term_months =
                         or_else_number(e.subscription_term_months, @),
                     !.billing_frequency = or_else(e.billing_frequency, @),
                     !.payment_terms = or_else(e.payment_terms, @),
                     !.payment_method = or_else(e.payment_method, @)]
            ELSE cleared
       ELSE IF cleared.opportunity_type = <<>>
            THEN [cleared EXCEPT !.opportunity_type = NewLogo] ELSE cleared

\* The radio of the opportunity type returns None: it has no default and
\* nothing is selected.  customer_fields_complete then raises.
radio_is_none(ss, inp) ==
    /\ inp.opportunity_type = <<>>
    /\ sourced_order(ss, inp).opportunity_type \notin opportunity_options
    /\ inp.input_source_mode # "Q/A"

\* The order of a run of step 1 after its widgets: lines 1466-1531.
customer_order(ss, inp) ==
    LET o == sourced_order(ss, inp)
        opportunity == IF inp.opportunity_type = <<>> THEN o.opportunity_type
                       ELSE inp.opportunity_type
    IN [o EXCEPT
           !.account_name = inp.account_name,
           !.primary_contact_name = inp.primary_contact_name,
           !.primary_contact_email = inp.primary_contact_email,
           !.billing_email = IF inp.same_email THEN inp.primary_contact_email
                             ELSE inp.billing_email,
           !.opportunity_type = opportunity,
           !.addendum_effective_date =
               IF opportunity = ExpansionUpsell /\ inp.selected_effective # NoDate
               THEN display_date(inp.selected_effective) ELSE <<>>,
           !.shipping_address = inp.shipping_address,
           !.billing_address = IF inp.same_address THEN inp.shipping_address
                               ELSE inp.billing_address]

\* What every run of step 1 stores, clicked or not.
customer_session(ss, inp) ==
    [ss EXCEPT !.input_source_mode = inp.input_source_mode,
               !.previous_input_source_mode = inp.input_source_mode,
               !.uploaded_once = @ \/ (inp.input_source_mode = "Upload Document"
                                       /\ inp.uploaded)]

\* The replaced form of step1_ok: the button is never disabled.
step1_ok_unchecked(o) == TRUE

\* step1_ok = customer_fields_complete(order)
step1_ok(o) == customer_fields_complete(o)

\* A run of step 1 without a click, or one that ends by the exception.
CustomerRun ==
    /\ session.form_step = 1
    /\ \E inp \in CustomerInputs :
           session' = customer_session(session, inp)
    /\ pdf_call' = NoPdfCall
    /\ UNCHANGED <<pc, flowVars, wrapVars, sortVars, renderVars, agreeVars, moreVars, went_back>>

\* "Continue to Terms"
ContinueToTerms ==
    /\ session.form_step = 1
    /\ \E inp \in CustomerInputs :
           /\ ~radio_is_none(session, inp)
           /\ step1_ok(customer_order(session, inp))
           /\ session' = [customer_session(session, inp) EXCEPT
                             !.form_step = 2,
                             !.order_data = customer_order(session, inp)]
    /\ pdf_call' = NoPdfCall
    /\ UNCHANGED <<pc, flowVars, wrapVars, sortVars, renderVars, agreeVars, moreVars, went_back>>

\* Step 2, the values of its widgets.
StartDates == {Date(2026, 3, 1), Date(2026, 3, 15)}
TextInputs == {<<>>, <<"a">>}
TermsInputs ==
    [selected_start : StartDates,
     subscription_term_months : {12},
     payment_method : {BankTransfer, AWSBilling},
     billing_id : TextInputs,
     billing_frequency : {Annual},
     payment_terms : {Net30}]

\* start_valid = selected_start.day == 1
start_valid_of(selected_start) == selected_start.day = 1

\* The order of a run of step 2 after its widgets: lines 1550-1608.
terms_order(o, inp) ==
    [o EXCEPT !.start_date = display_date(first_of_month(inp.selected_start)),
              !.subscription_term_months = inp.subscription_term_months,
              !.payment_method = inp.payment_method,
              !.billing_id = IF inp.payment_method # BankTransfer THEN inp.billing_id
                             ELSE <<>>,
              !.billing_frequency = inp.billing_frequency,
              !.payment_terms = inp.payment_terms]

\* "Back to Customer Information"
BackToCustomerInformation ==
    /\ session.form_step = 2
    /\ \E inp \in TermsInputs :
           session' = [session EXCEPT !.form_step = 1,
                                      !.order_data = terms_order(@, inp)]
    /\ went_back' = TRUE
    /\ pdf_call' = NoPdfCall
    /\ UNCHANGED <<pc, flowVars, wrapVars, sortVars, renderVars, agreeVars, moreVars>>

\* "Continue to Product Selection"
ContinueToProductSelection ==
    /\ session.form_step = 2
    /\ \E inp \in TermsInputs :
           /\ terms_fields_complete(terms_order(session.order_data, inp),
                                    start_valid_of(inp.selected_start))
           /\ session' = [session EXCEPT !.form_step = 3,
                                         !.order_data = terms_order(@, inp)]
    /\ pdf_call' = NoPdfCall
    /\ UNCHANGED <<pc, flowVars, wrapVars, sortVars, renderVars, agreeVars, moreVars, went_back>>

\* Step 3.  A run follows one change of one widget: of the product
\* selection, or of one cell of the table; the other widgets return what
\* the session state gives them as their value.  The cells edited are the
\* usage commitments and the fees.
ProductPicks == {<<FeatureGates, Experimentation>>}
ExperimentationChoices == {AnalysisOnly}
SupportTiers == {Premium}
CellTexts ==
    [service |-> {},
     annual_usage_commitment |-> {<<"5">>},
     unit |-> {},
     annual_service_fee |-> {<<"5">>}]
NoEdit == [row |-> 0, key |-> "", value |-> <<>>]

\* st.multiselect: the picked ones of its options
multiselect(options, picks) == SelectSeq(picks, LAMBDA p : p \in Elems(options))

\* The options of "Other Products" for a choice of the experimentation product.
wn_other_options_of(experimentation) ==
    IF experimentation = AnalysisOnly
    THEN SelectSeq(WAREHOUSE_NATIVE_OTHER_PRODUCTS, LAMBDA p : p # FeatureGates)
    ELSE WAREHOUSE_NATIVE_OTHER_PRODUCTS

\* The values the selection widgets hold when they are not touched.
kept_selection(ss) ==
    [warehouse_type |-> ss.warehouse_type,
     picks |-> ss.selected_products,
     experimentation |->
         IF ss.warehouse_native_experimentation \in ExperimentationChoices
         THEN ss.warehouse_native_experimentation ELSE NoneStr,
     support_tier |-> ss.support_tier,
     edit |-> NoEdit,
     click |-> ""]

\* The runs of step 3 in which the selection widgets are changed, in which
\* one cell is given one of the texts, and in which a button is clicked.
SelectionInputs ==
    {[warehouse_type |-> wt, picks |-> picks, experimentation |-> e,
      support_tier |-> tier, edit |-> NoEdit, click |-> ""] :
         wt \in Elems(WAREHOUSE_TYPES), picks \in ProductPicks,
         e \in ExperimentationChoices, tier \in SupportTiers}

EditInputs(ss, cells) ==
    UNION {{[kept_selection(ss) EXCEPT
                 !.edit = [row |-> i, key |-> k, value |-> v]] :
                i \in DOMAIN ss.services_rows, v \in cells[k]} :
            k \in DOMAIN cells}

\* selected_products_with_support: lines 1702-1704.
with_support(selected_products) ==
    SelectSeq(selected_products, LAMBDA p : p # Support) \o <<Support>>

\* "Continue" is disabled unless can_continue: lines 1825-1832.
can_continue(selected_products_with_support) == Len(selected_products_with_support) > 0

ClickInputs(ss) ==
    {[kept_selection(ss) EXCEPT !.click = b] :
        b \in {"Back to Terms"} \cup
              (IF can_continue(with_support(ss.selected_products))
               THEN {"Continue"} ELSE {})}

ProductInputs(ss) == SelectionInputs \cup EditInputs(ss, CellTexts) \cup ClickInputs(ss)

\* The signature of a row list: what the run compares to see a new order.
order_sig(rs) ==
    [i \in DOMAIN rs |->
        <<str(get(rs[i], "service", Str(<<>>))),
          str(get(rs[i], "annual_usage_commitment", Str(<<>>))),
          str(get(rs[i], "unit", Str(<<>>))),
          str(get(rs[i], "annual_service_fee", Str(<<>>)))>>]

\* The product selection of a run of step 3: lines 1626-1711.
selected_products_of(wt, experimentation, warehouse_native_others, picks) ==
    IF wt = "Credit/Usage Based" THEN USAGE_BASED_REQUIRED_PRODUCTS
    ELSE IF wt = "Warehouse Native"
    THEN (IF experimentation # NoneStr
          THEN Append(warehouse_native_others, experimentation)
          ELSE warehouse_native_others)
    ELSE multiselect(product_options_by_warehouse(wt), picks)

warehouse_native_others_of(experimentation, others) ==
    IF experimentation = AnalysisAssignment /\ FeatureGates \notin Elems(others)
    THEN Append(others, FeatureGates) ELSE others

selection(wt, experimentation, selected_products, support_tier) ==
    [warehouse_type |-> wt,
     warehouse_native_experimentation |-> experimentation,
     selected_products |-> selected_products,
     selected_products_with_support |-> with_support(selected_products),
     support_tier |-> support_tier,
     product_signature |->
         <<wt, with_support(selected_products), experimentation, support_tier>>]

selection_of(experimentation, inp) ==
    selection(inp.warehouse_type, experimentation,
              selected_products_of(
                  inp.warehouse_type, experimentation,
                  warehouse_native_others_of(
                      experimentation,
                      multiselect(wn_other_options_of(experimentation), inp.picks)),
                  inp.picks),
              inp.support_tier)

\* The rows the table editor is given: lines 1712-1732.
rows_of_selection(ss, sel) ==
    IF sel.product_signature # ss.product_signature
    THEN build_services_rows(sel.selected_products_with_support, sel.support_tier,
                             ss.services_rows)
    ELSE ss.services_rows

fees_displayed(normalized) ==
    [i \in DOMAIN normalized |->
        [normalized[i] EXCEPT !.annual_service_fee = Str(format_fee_display(@))]]

rows_for_editor(ss, sel) == fees_displayed(normalize_service_rows(rows_of_selection(ss, sel)))

\* st.data_editor: the rows with the edit of the run, in a column it shows.
editable(column_spec) ==
    {column_spec[j].key : j \in DOMAIN column_spec} \ {"subscription_period"}

data_editor(given, edit, wt) ==
    IF edit.row \in DOMAIN given /\ edit.key \in editable(table_columns_for_warehouse(wt))
    THEN [given EXCEPT ![edit.row][edit.key] = Str(edit.value)]
    ELSE given

\* The period, the usage commitment and the fee of the edited rows: lines 1755-1772.
period_text_of(start, term_months) ==
    display_date(start) \o <<" ", "-", " ">>
        \o display_date(compute_end_date(start, term_months))

locked(row, period_text_for_rows, wt) ==
    [row EXCEPT
        !.subscription_period = Str(period_text_for_rows),
        !.annual_usage_commitment =
            IF wt # "Credit/Usage Based"
               /\ ~is_experimentation_service(strip(str(row.service)), wt)
            THEN Str(NA)
            ELSE Str(format_usage_commitment_value(@)),
        !.annual_service_fee = Num(normalize_fee_value(@))]

locked_rows(loaded, period_text_for_rows, wt) ==
    [i \in DOMAIN loaded |-> locked(loaded[i], period_text_for_rows, wt)]

services_df_of(ss, sel, edit) ==
    locked_rows(rows_from_editor(data_editor(rows_for_editor(ss, sel), edit,
                                             sel.warehouse_type)),
                period_text_of(parse_date(ss.order_data.start_date),
                               ss.order_data.subscription_term_months),
                sel.warehouse_type)

run_result_unsorted(ss, sel, services_df, sorted_services_df) ==
    [session |->
         [ss EXCEPT !.warehouse_type = sel.warehouse_type,
                    !.selected_products = sel.selected_products,
                    !.warehouse_native_experimentation =
                        sel.warehouse_native_experimentation,
                    !.support_tier = sel.support_tier,
                    !.product_signature = sel.product_signature,
                    !.services_rows = services_df],
     rerun |-> order_sig(services_df) # order_sig(sorted_services_df),
     service_validation_errors |->
         validate_services_rows(sorted_services_df, sel.warehouse_type)]

\* What the run stores and finds: lines 1773-1813.
run_result(ss, sel, services_df, sorted_services_df) ==
    [session |->
         [ss EXCEPT !.warehouse_type = sel.warehouse_type,
                    !.selected_products = sel.selected_products,
                    !.warehouse_native_experimentation =
                        sel.warehouse_native_experimentation,
                    !.support_tier = sel.support_tier,
                    !.product_signature = sel.product_signature,
                    !.services_rows = sorted_services_df],
     rerun |-> order_sig(services_df) # order_sig(sorted_services_df),
     service_validation_errors |->
         validate_services_rows(sorted_services_df, sel.warehouse_type)]

run_of_rows(ss, sel, services_df) ==
    run_result(ss, sel, services_df, sort_rows_by_fee_desc(services_df))

run_of_selection(ss, sel, edit) == run_of_rows(ss, sel, services_df_of(ss, sel, edit))

\* A run of step 3 up to its buttons: lines 1626-1813.
product_run(ss, inp) ==
    run_of_selection(ss,
                     selection_of(IF inp.warehouse_type = "Warehouse Native"
                                  THEN inp.experimentation ELSE <<>>, inp),
                     inp.edit)

step3_session_unvalidated(run, click) ==
    IF run.rerun \/ click = "" THEN run.session
    ELSE IF click = "Back to Terms" THEN [run.session EXCEPT !.form_step = 2]
    ELSE [run.session EXCEPT !.show_table_errors = FALSE, !.form_step = 4]

\* The session state a run of step 3 leaves: lines 1792-1841.  A run that
\* starts over to show the rows in their new order does not reach the
\* buttons.
step3_session(run, click) ==
    IF run.rerun \/ click = "" THEN run.session
    ELSE IF click = "Back to Terms" THEN [run.session EXCEPT !.form_step = 2]
    ELSE IF run.service_validation_errors # {}
    THEN [run.session EXCEPT !.show_table_errors = TRUE]
    ELSE [run.session EXCEPT !.show_table_errors = FALSE, !.form_step = 4]

\* A run of step 3: after the change of a widget, or after the click of
\* "Back to Terms" or of "Continue".
ProductSelectionRun ==
    /\ session.form_step = 3
    /\ \E inp \in ProductInputs(session) :
           session' = step3_session(product_run(session, inp), inp.click)
    /\ went_back' = (went_back \/ session'.form_step = 2)
    /\ pdf_call' = NoPdfCall
    /\ UNCHANGED <<pc, flowVars, wrapVars, sortVars, renderVars, agreeVars, moreVars>>

\* Step 4, the values of its widgets.
AgreementInputs ==
    [terms_type : {"Online", "MSA"}, selected_msa_date : {NoDate, Date(2026, 1, 2)}]

\* The order of a run of step 4 after its widgets: lines 1858-1877.
agreement_order(o, inp) ==
    [o EXCEPT !.terms_type = inp.terms_type,
              !.msa_execution_date =
                  IF inp.terms_type = "MSA" /\ inp.selected_msa_date # NoDate
                  THEN display_date(inp.selected_msa_date) ELSE <<>>]

\* create_branded_pdf(order, services_df, st.session_state.warehouse_type)
PdfCall(ss, inp, by) ==
    [made |-> TRUE,
     by |-> by,
     order |-> agreement_order(ss.order_data, inp),
     services |-> normalize_service_rows(ss.services_rows),
     warehouse_type |-> ss.warehouse_type]

\* Generate PDF stops before it stores or renders anything.
generate_stops(o) == o.terms_type = "MSA" /\ o.msa_execution_date = <<>>

\* A run of step 4 without a click, or one that Generate PDF stops: the
\* preview is rendered.
AgreementRun ==
    /\ session.form_step = 4
    /\ \E inp \in AgreementInputs : pdf_call' = PdfCall(session, inp, "preview")
    /\ UNCHANGED <<pc, flowVars, wrapVars, sortVars, renderVars, agreeVars, moreVars, session,
                   went_back>>

\* "Back to Product Selection"
BackToProductSelection ==
    /\ session.form_step = 4
    /\ \E inp \in AgreementInputs :
           /\ pdf_call' = PdfCall(session, inp, "preview")
           /\ session' = [session EXCEPT !.form_step = 3,
                                         !.order_data = agreement_order(@, inp)]
    /\ went_back' = TRUE
    /\ UNCHANGED <<pc, flowVars, wrapVars, sortVars, renderVars, agreeVars, moreVars>>

\* "Generate PDF"
GeneratePDF ==
    /\ session.form_step = 4
    /\ \E inp \in AgreementInputs :
           /\ ~generate_stops(agreement_order(session.order_data, inp))
           /\ pdf_call' = PdfCall(session, inp, "generate")
           /\ session' = [session EXCEPT !.order_data = agreement_order(@, inp)]
    /\ UNCHANGED <<pc, flowVars, wrapVars, sortVars, renderVars, agreeVars, moreVars, went_back>>

(***************************************************************************)
(* SpecWizard: a session from its first run, through every sequence of     *)
(* runs of the four steps.                                                 *)
(***************************************************************************)
InitWizard ==
    /\ pc = "main"
    /\ session = InitialSession
    /\ pdf_call = NoPdfCall
    /\ went_back = FALSE
    /\ FlowIdle
    /\ WrapIdle
    /\ SortIdle
    /\ RenderIdle
    /\ AgreeIdle
    /\ MoreIdle

NextWizard ==
    \/ CustomerRun
    \/ ContinueToTerms
    \/ BackToCustomerInformation
    \/ ContinueToProductSelection
    \/ ProductSelectionRun
    \/ AgreementRun
    \/ BackToProductSelection
    \/ GeneratePDF

SpecWizard == InitWizard /\ [][NextWizard]_vars

\* A date string in the form the layout assumes: MM/01/YYYY.
is_first_of_month_text(s) ==
    /\ strptime(s, "/", 3, 1, 2).ok
    /\ s = display_date(first_of_month(strptime(s, "/", 3, 1, 2).date))

\* C12: whenever the wizard calls create_branded_pdf, for the preview or for
\* Generate PDF, the customer and the terms fields of the order passed are
\* complete, its start date is a first of a month, validate_services_rows
\* finds no error in the rows passed under the pricing mode passed, and the
\* rows are in the order sort_rows_by_fee_desc gives them.
C12_RenderedDataValidated ==
    pdf_call.made =>
        /\ customer_fields_complete(pdf_call.order)
        /\ is_first_of_month_text(pdf_call.order.start_date)
        /\ terms_fields_complete(pdf_call.order,
                                 is_first_of_month_text(pdf_call.order.start_date))
        /\ validate_services_rows(pdf_call.services, pdf_call.warehouse_type) = {}
        /\ sort_rows_by_fee_desc(pdf_call.services) = pdf_call.services

\* Generate PDF after a Back button, for three rows whose fees differ and
\* an order from an upload with a cloud payment method.
C12_Witness ==
    /\ pdf_call.made
    /\ pdf_call.by = "generate"
    /\ went_back
    /\ session.uploaded_once
    /\ pdf_call.order.payment_method = AWSBilling
    /\ Len(pdf_call.services) = 3
    /\ \E i, j \in DOMAIN pdf_call.services :
           pdf_call.services[i].annual_service_fee # pdf_call.services[j].annual_service_fee


(***************************************************************************)
(* A row with fields missing on its way to the table: it is normalized by  *)
(* normalize_service_rows, then create_branded_pdf wraps its cells and     *)
(* computes its height.  A row is given with any subset of its five keys;  *)
(* the values of the keys it has are well-formed or not.                   *)
(***************************************************************************)
RowKeys ==
    {"subscription_period", "service", "annual_usage_commitment", "unit",
     "annual_service_fee"}

NonNumericFees == {None, Str(<<>>), Str(<<"x">>)}

RowValues ==
    [subscription_period |-> {Str(<<>>)},
     service |-> {Str(LabelA)},
     annual_usage_commitment |-> {Str(<<"1", "0", "0", "0">>), Str(<<"n", "/", "a">>), None},
     unit |-> {Str(<<"u">>)},
     annual_service_fee |->
         NonNumericFees \cup {Num(1000), Str(<<"$", "1", "0", ".", "0", "0">>)}]

RowsOver(keys) ==
    {row \in [keys -> UNION {RowValues[k] : k \in keys}] :
         \A k \in keys : row[k] \in RowValues[k]}

MalformedRows == UNION {RowsOver(keys) : keys \in SUBSET RowKeys}

InitNormalize ==
    /\ pc = "call"
    /\ raw_row \in MalformedRows
    /\ normalized_row = NoRow
    /\ row_layout = NoRowLayout
    /\ FlowIdle
    /\ WrapIdle
    /\ SortIdle
    /\ RenderIdle
    /\ AgreeIdle
    /\ WizardIdle
    /\ AssetIdle
    /\ DateIdle

\* normalize_service_rows: the row appended for raw_row
NormalizeRow ==
    /\ pc = "call"
    /\ normalized_row' = normalize_service_row(raw_row)
    /\ pc' = "normalized"
    /\ UNCHANGED <<raw_row, row_layout>>
    /\ UNCHANGED <<flowVars, wrapVars, sortVars, renderVars, agreeVars, wizardVars, assetVars,
                   dateVars>>

\* create_branded_pdf: row_wrapped and row_heights of the normalized row
LayOutRow ==
    /\ pc = "normalized"
    /\ \E wt \in Elems(WAREHOUSE_TYPES) :
           row_layout' =
               [made |-> TRUE,
                column_spec |-> table_columns_for_warehouse(wt),
                cells |-> row_wrapped(normalized_row, table_columns_for_warehouse(wt)),
                height |-> row_height(normalized_row, table_columns_for_warehouse(wt))]
    /\ pc' = "laid_out"
    /\ UNCHANGED <<raw_row, normalized_row>>
    /\ UNCHANGED <<flowVars, wrapVars, sortVars, renderVars, agreeVars, wizardVars, assetVars,
                   dateVars>>

NextNormalize == NormalizeRow \/ LayOutRow

SpecNormalize == InitNormalize /\ [][NextNormalize]_vars

Missing(key) == key \notin DOMAIN raw_row

\* What holds of every normalized row, whatever is missing in the row given.
NormalizedWithDefaults(usage_default) ==
    /\ DOMAIN normalized_row = RowKeys
    /\ \A key \in {"subscription_period", "service", "unit"} :
           normalized_row[key] = Str(IF Missing(key) THEN <<>> ELSE raw_row[key].s)
    /\ Missing("annual_usage_commitment") =>
           normalized_row.annual_usage_commitment = Str(usage_default)
    /\ (Missing("annual_service_fee") \/ raw_row.annual_service_fee \in NonNumericFees) =>
           normalized_row.annual_service_fee = Num(0)

LaidOut ==
    /\ row_layout.made
    /\ Len(row_layout.cells) = Len(row_layout.column_spec) - 1
    /\ \A i \in DOMAIN row_layout.cells : Len(row_layout.cells[i]) >= 1
    /\ row_layout.height >= 22

font_candidates ==
    << [regular |-> "/Users/matti/Desktop/Codex/assets/OpenSans-Regular.ttf",
        bold |-> "/Users/matti/Desktop/Codex/assets/OpenSans-Bold.ttf"],
       [regular |-> "/Library/Fonts/OpenSans-Regular.ttf",
        bold |-> "/Library/Fonts/OpenSans-Bold.ttf"],
       [regular |-> "/System/Library/Fonts/Supplemental/OpenSans-Regular.ttf",
        bold |-> "/System/Library/Fonts/Supplemental/OpenSans-Bold.ttf"] >>

italic_candidates ==
    << "/Users/matti/Desktop/Codex/assets/OpenSans-Italic.ttf",
       "/Library/Fonts/OpenSans-Italic.ttf",
       "/System/Library/Fonts/Supplemental/OpenSans-Italic.ttf" >>

header_logo_candidates ==
    << "/Users/matti/Desktop/Statsig_Logo_Transparent_Black.png",
       "/Users/matti/Desktop/Logo-min.png",
       "/Users/matti/Desktop/Statsig Logo.jpeg",
       "/Users/matti/Desktop/Codex/assets/statsig-header.png",
       "/Users/matti/Desktop/Codex/assets/statsig_header.png",
       "/Users/matti/Desktop/Codex/assets/statsig-logo.png",
       "/Users/matti/Desktop/Codex/assets/statsig_logo.png" >>

FontFiles ==
    {font_candidates[k].regular : k \in DOMAIN font_candidates}
        \cup {font_candidates[k].bold : k \in DOMAIN font_candidates}
        \cup Elems(italic_candidates)

CandidateFiles == FontFiles \cup Elems(header_logo_candidates)

\* os.path.exists(path)
exists(path) == path \in files

regular_exists(candidate) == exists(candidate.regular)

\* os.path.exists(regular_path) and os.path.exists(bold_path)
font_pair_exists(candidate) == exists(candidate.regular) /\ exists(candidate.bold)

\* TTFont(name, path) reads the file.
TTFont_raises(path) == ~exists(path)

registerFont_once(reg, name, path) ==
    [raised |-> name \in DOMAIN reg, fonts |-> (name :> path) @@ reg]

\* pdfmetrics.registerFont(TTFont(name, path)): the font takes the place of a
\* font registered under the same name.
registerFont(reg, name, path) == [raised |-> FALSE, fonts |-> (name :> path) @@ reg]

\* pdfmetrics.getRegisteredFontNames()
getRegisteredFontNames == DOMAIN registry

\* find_header_logo_path()
find_header_logo_path ==
    IF \E k \in DOMAIN header_logo_candidates : exists(header_logo_candidates[k])
    THEN header_logo_candidates[
             CHOOSE k \in DOMAIN header_logo_candidates :
                 /\ exists(header_logo_candidates[k])
                 /\ \A j \in 1 .. (k - 1) : ~exists(header_logo_candidates[j])]
    ELSE ""

header_line_y == PageHeight - 112

\* The locals of a call of create_branded_pdf that has just made its canvas,
\* with the names of the fonts it registers.
StartRender(body, run) ==
    [pc |-> "fonts", run |-> run, k |-> 0, regular |-> "", bold |-> "", italic |-> "",
     logo_path |-> "", header |-> [kind |-> "none"], cv |-> NewCanvas, y |-> TopMargin,
     body |-> body, todo |-> body, registered |-> {}]

At(r, label) == r \in DOMAIN renders /\ renders[r].pc = label

Becomes(r, rd) == renders' = [renders EXCEPT ![r] = rd]

exceptAssets == <<pc, flowVars, wrapVars, sortVars, renderVars, agreeVars, wizardVars, normVars,
                  dateVars>>

\* resolve_pdf_fonts: "OpenSans" in pdfmetrics.getRegisteredFontNames()
FontsCheckRegular(r) ==
    /\ At(r, "fonts")
    /\ Becomes(r, IF "OpenSans" \in getRegisteredFontNames
                  THEN [renders[r] EXCEPT !.pc = "fonts_bold"]
                  ELSE [renders[r] EXCEPT !.pc = "font_candidate", !.k = 1])
    /\ UNCHANGED <<files, registry>>
    /\ UNCHANGED exceptAssets

\* resolve_pdf_fonts: ... and "OpenSans-Bold" in pdfmetrics.getRegisteredFontNames()
FontsCheckBold(r) ==
    /\ At(r, "fonts_bold")
    /\ Becomes(r, IF "OpenSans-Bold" \in getRegisteredFontNames
                  THEN [renders[r] EXCEPT !.pc = "italic", !.regular = "OpenSans",
                                          !.bold = "OpenSans-Bold"]
                  ELSE [renders[r] EXCEPT !.pc = "font_candidate", !.k = 1])
    /\ UNCHANGED <<files, registry>>
    /\ UNCHANGED exceptAssets

\* resolve_pdf_fonts: one turn of the loop over font_candidates, or its end
FontCandidate(r) ==
    /\ At(r, "font_candidate")
    /\ Becomes(r, IF renders[r].k > Len(font_candidates)
                  THEN [renders[r] EXCEPT !.pc = "italic", !.regular = "Helvetica",
                                          !.bold = "Helvetica-Bold"]
                  ELSE IF font_pair_exists(font_candidates[renders[r].k])
                       THEN [renders[r] EXCEPT !.pc = "register_regular"]
                       ELSE [renders[r] EXCEPT !.k = @ + 1])
    /\ UNCHANGED <<files, registry>>
    /\ UNCHANGED exceptAssets

\* A call pdfmetrics.registerFont(TTFont(name, path)) of render r, which goes
\* on as rd if nothing is raised.
Register(r, name, path, rd) ==
    IF TTFont_raises(path) \/ registerFont(registry, name, path).raised
    THEN Becomes(r, [renders[r] EXCEPT !.pc = "raised"]) /\ UNCHANGED registry
    ELSE /\ Becomes(r, [rd EXCEPT !.registered = @ \cup {name}])
         /\ registry' = registerFont(registry, name, path).fonts

\* resolve_pdf_fonts: pdfmetrics.registerFont(TTFont("OpenSans", regular_path))
RegisterRegular(r) ==
    /\ At(r, "register_regular")
    /\ Register(r, "OpenSans", font_candidates[renders[r].k].regular,
                [renders[r] EXCEPT !.pc = "register_bold"])
    /\ UNCHANGED files
    /\ UNCHANGED exceptAssets

\* resolve_pdf_fonts: pdfmetrics.registerFont(TTFont("OpenSans-Bold", bold_path))
RegisterBold(r) ==
    /\ At(r, "register_bold")
    /\ Register(r, "OpenSans-Bold", font_candidates[renders[r].k].bold,
                [renders[r] EXCEPT !.pc = "italic", !.regular = "OpenSans",
                                   !.bold = "OpenSans-Bold"])
    /\ UNCHANGED files
    /\ UNCHANGED exceptAssets

\* resolve_pdf_italic_font: "OpenSans-Italic" in pdfmetrics.getRegisteredFontNames()
ItalicCheck(r) ==
    /\ At(r, "italic")
    /\ Becomes(r, IF "OpenSans-Italic" \in getRegisteredFontNames
                  THEN [renders[r] EXCEPT !.pc = "logo", !.italic = "OpenSans-Italic"]
                  ELSE [renders[r] EXCEPT !.pc = "italic_candidate", !.k = 1])
    /\ UNCHANGED <<files, registry>>
    /\ UNCHANGED exceptAssets

\* resolve_pdf_italic_font: one turn of the loop over the paths, or its end
ItalicCandidate(r) ==
    /\ At(r, "italic_candidate")
    /\ Becomes(r, IF renders[r].k > Len(italic_candidates)
                  THEN [renders[r] EXCEPT !.pc = "logo", !.italic = "Helvetica-Oblique"]
                  ELSE IF exists(italic_candidates[renders[r].k])
                       THEN [renders[r] EXCEPT !.pc = "register_italic"]
                       ELSE [renders[r] EXCEPT !.k = @ + 1])
    /\ UNCHANGED <<files, registry>>
    /\ UNCHANGED exceptAssets

\* resolve_pdf_italic_font: pdfmetrics.registerFont(TTFont("OpenSans-Italic", path))
RegisterItalic(r) ==
    /\ At(r, "register_italic")
    /\ Register(r, "OpenSans-Italic", italic_candidates[renders[r].k],
                [renders[r] EXCEPT !.pc = "logo", !.italic = "OpenSans-Italic"])
    /\ UNCHANGED files
    /\ UNCHANGED exceptAssets

\* create_branded_pdf: logo_path = find_header_logo_path()
FindHeaderLogo(r) ==
    /\ At(r, "logo")
    /\ Becomes(r, [renders[r] EXCEPT !.pc = "header", !.logo_path = find_header_logo_path])
    /\ UNCHANGED <<files, registry>>
    /\ UNCHANGED exceptAssets

\* create_branded_pdf: the header, the logo or the name in bold, then "Order Form"
DrawHeaderOf(r) ==
    /\ At(r, "header")
    /\ Becomes(r, [renders[r] EXCEPT
                       !.pc = "body",
                       !.header = IF renders[r].logo_path # ""
                                  THEN [kind |-> "image", path |-> renders[r].logo_path]
                                  ELSE [kind |-> "text", font |-> <<renders[r].bold, 26>>],
                       !.cv = setFillColor(setFont(@, renders[r].bold, 12), "black"),
                       !.y = header_line_y])
    /\ UNCHANGED <<files, registry>>
    /\ UNCHANGED exceptAssets

\* A unit of the body: room for it is made on the render's canvas, it is
\* drawn and the render's cursor moves down.
DrawBodyUnit(r) ==
    /\ At(r, "body")
    /\ renders[r].todo # <<>>
    /\ LET made == ensure_space(renders[r].cv, renders[r].y, Head(renders[r].todo)) IN
       Becomes(r, [renders[r] EXCEPT !.cv = made.cv,
                                     !.y = made.y - Head(renders[r].todo),
                                     !.todo = Tail(@)])
    /\ UNCHANGED <<files, registry>>
    /\ UNCHANGED exceptAssets

\* create_branded_pdf: c.save(); return buffer.getvalue()
SaveRender(r) ==
    /\ At(r, "body")
    /\ renders[r].todo = <<>>
    /\ Becomes(r, [renders[r] EXCEPT !.pc = "saved"])
    /\ UNCHANGED <<files, registry>>
    /\ UNCHANGED exceptAssets

\* The thread of a finished render calls create_branded_pdf again.
RenderAgain(r) ==
    /\ At(r, "saved")
    /\ renders[r].run < MaxRenders
    /\ Becomes(r, StartRender(renders[r].body, renders[r].run + 1))
    /\ UNCHANGED <<files, registry>>
    /\ UNCHANGED exceptAssets

Bodies == {<<>>, <<400, 400>>}

ExistingFiles(candidates) == {present \in SUBSET candidates : Cardinality(present) <= MaxFiles}

InitAssets ==
    /\ pc = "process"
    /\ files \in ExistingFiles(CandidateFiles)
    /\ registry = <<>>
    /\ \E body \in Bodies : renders = <<StartRender(body, 1)>>
    /\ FlowIdle
    /\ WrapIdle
    /\ SortIdle
    /\ RenderIdle
    /\ AgreeIdle
    /\ WizardIdle
    /\ NormIdle
    /\ DateIdle

NextAssets ==
    \/ \E r \in DOMAIN renders : FontsCheckRegular(r)
    \/ \E r \in DOMAIN renders : FontsCheckBold(r)
    \/ \E r \in DOMAIN renders : FontCandidate(r)
    \/ \E r \in DOMAIN renders : RegisterRegular(r)
    \/ \E r \in DOMAIN renders : RegisterBold(r)
    \/ \E r \in DOMAIN renders : ItalicCheck(r)
    \/ \E r \in DOMAIN renders : ItalicCandidate(r)
    \/ \E r \in DOMAIN renders : RegisterItalic(r)
    \/ \E r \in DOMAIN renders : FindHeaderLogo(r)
    \/ \E r \in DOMAIN renders : DrawHeaderOf(r)
    \/ \E r \in DOMAIN renders : DrawBodyUnit(r)
    \/ \E r \in DOMAIN renders : SaveRender(r)
    \/ \E r \in DOMAIN renders : RenderAgain(r)

SpecAssets == InitAssets /\ [][NextAssets]_vars

\* The first of the candidates, each a set of files, that is there in full,
\* 0 if there is none.
FirstPresent(candidates) ==
    IF \E k \in DOMAIN candidates : candidates[k] \subseteq files
    THEN CHOOSE k \in DOMAIN candidates :
             /\ candidates[k] \subseteq files
             /\ \A j \in 1 .. (k - 1) : ~(candidates[j] \subseteq files)
    ELSE 0

FirstFontPair ==
    FirstPresent([k \in DOMAIN font_candidates |->
                     {font_candidates[k].regular, font_candidates[k].bold}])
FirstItalic == FirstPresent([k \in DOMAIN italic_candidates |-> {italic_candidates[k]}])
FirstHeaderLogo ==
    FirstPresent([k \in DOMAIN header_logo_candidates |-> {header_logo_candidates[k]}])

FontsResolved(rd) == rd.regular # ""
ItalicResolved(rd) == rd.italic # ""
LogoLookedUp(rd) == rd.pc \in {"header", "body", "saved"}
HeaderDrawn(rd) == rd.pc \in {"body", "saved"}

\* What the three lookups of a render have returned, as far as it has come.
AssetsAsExpected(rd) ==
    /\ FontsResolved(rd) =>
           IF FirstFontPair = 0
           THEN /\ <<rd.regular, rd.bold>> = <<"Helvetica", "Helvetica-Bold">>
                /\ {"OpenSans", "OpenSans-Bold"} \cap DOMAIN registry = {}
           ELSE /\ <<rd.regular, rd.bold>> = <<"OpenSans", "OpenSans-Bold">>
                /\ registry["OpenSans"] = font_candidates[FirstFontPair].regular
                /\ registry["OpenSans-Bold"] = font_candidates[FirstFontPair].bold
    /\ ItalicResolved(rd) =>
           IF FirstItalic = 0
           THEN rd.italic = "Helvetica-Oblique" /\ "OpenSans-Italic" \notin DOMAIN registry
           ELSE /\ rd.italic = "OpenSans-Italic"
                /\ registry["OpenSans-Italic"] = italic_candidates[FirstItalic]
    /\ LogoLookedUp(rd) =>
           rd.logo_path = IF FirstHeaderLogo = 0 THEN ""
                          ELSE header_logo_candidates[FirstHeaderLogo]
    /\ HeaderDrawn(rd) =>
           rd.header = IF FirstHeaderLogo = 0
                       THEN [kind |-> "text", font |-> <<rd.bold, 26>>]
                       ELSE [kind |-> "image", path |-> header_logo_candidates[FirstHeaderLogo]]

\* C14: whichever of the candidate font and logo files exist, none of them
\* included, the lookups of a render return the first candidate that is there
\* in full (for the fonts: regular and bold file both), registered from that
\* candidate's files, or else the built-in Helvetica, Helvetica-Bold,
\* Helvetica-Oblique and the text-only header; no step of the render raises,
\* and a render that is not yet saved can take its next step.
C14_AssetLookupNeverFails ==
    \A r \in DOMAIN renders :
        /\ renders[r].pc # "raised"
        /\ AssetsAsExpected(renders[r])
        /\ renders[r].pc # "saved" => ENABLED NextAssets

C14_Witness ==
    /\ renders # <<>>
    /\ renders[1].pc = "saved"
    /\ renders[1].run = 1
    /\ font_candidates[1].regular \in files
    /\ font_candidates[1].bold \notin files
    /\ renders[1].regular = "Helvetica"
    /\ renders[1].italic = "OpenSans-Italic"
    /\ renders[1].header.kind = "text"
    /\ renders[1].cv.page = 2


(***************************************************************************)
(* Two renders of one process, in two threads: the steps of their font     *)
(* lookups interleave in every order; each has its own canvas and cursor.  *)
(* The thread of the first render goes on to render again.                 *)
(***************************************************************************)
InitConcurrent ==
    /\ pc = "process"
    /\ files \in ExistingFiles(FontFiles)
    /\ registry = <<>>
    /\ renders = <<StartRender(<<400, 400>>, 1), StartRender(<<400>>, MaxRenders)>>
    /\ FlowIdle
    /\ WrapIdle
    /\ SortIdle
    /\ RenderIdle
    /\ AgreeIdle
    /\ WizardIdle
    /\ NormIdle
    /\ DateIdle

SpecConcurrent == InitConcurrent /\ [][NextAssets]_vars

\* The registry a render running alone leaves behind.
SoloRegistry ==
    (IF FirstFontPair = 0 THEN <<>>
     ELSE ("OpenSans" :> font_candidates[FirstFontPair].regular)
              @@ ("OpenSans-Bold" :> font_candidates[FirstFontPair].bold))
        @@ (IF FirstItalic = 0 THEN <<>>
            ELSE "OpenSans-Italic" :> italic_candidates[FirstItalic])

\* Canvas and cursor of a render running alone after the units drawn.
RECURSIVE SoloBody(_, _, _)
SoloBody(cv, cur, units) ==
    IF units = <<>> THEN [cv |-> cv, y |-> cur]
    ELSE LET made == ensure_space(cv, cur, Head(units)) IN
         SoloBody(made.cv, made.y - Head(units), Tail(units))

SoloAfterHeader(rd) ==
    SoloBody(setFillColor(setFont(NewCanvas,
                                  IF FirstFontPair = 0 THEN "Helvetica-Bold"
                                  ELSE "OpenSans-Bold", 12), "black"),
             header_line_y,
             SubSeq(rd.body, 1, Len(rd.body) - Len(rd.todo)))

\* C15: under every interleaving of the steps of two renders, no step raises
\* (registering a font that the other render has registered meanwhile is not
\* an error), the registry never holds anything but what a render running
\* alone registers and holds all of it once a render has resolved its fonts,
\* and each render gets the fonts and draws the pages and moves the cursor
\* exactly as it does running alone.
C15_ConcurrentRendersSafe ==
    /\ \A name \in DOMAIN registry :
           name \in DOMAIN SoloRegistry /\ registry[name] = SoloRegistry[name]
    /\ \A r \in DOMAIN renders :
           /\ renders[r].pc # "raised"
           /\ AssetsAsExpected(renders[r])
           /\ ItalicResolved(renders[r]) => registry = SoloRegistry
           /\ HeaderDrawn(renders[r]) =>
                  /\ renders[r].cv = SoloAfterHeader(renders[r]).cv
                  /\ renders[r].y = SoloAfterHeader(renders[r]).y

C15_Witness ==
    /\ Len(renders) = 2
    /\ renders[1].pc = "saved"
    /\ renders[2].pc = "saved"
    /\ {"OpenSans", "OpenSans-Bold", "OpenSans-Italic"} \subseteq renders[1].registered
    /\ {"OpenSans", "OpenSans-Bold", "OpenSans-Italic"} \subseteq renders[2].registered
    /\ renders[1].cv.page = 2
    /\ renders[2].cv.page = 1


\* C16 as stated: every text is drawn in the font and the fill color meant
\* for its kind, also when it is the first text on a new page: the heading
\* and the party titles in bold 12, every other text in regular 10, a link
\* token in the link color and everything else in black; no text is drawn in
\* the font showPage leaves behind.
C16_FontAndFillSetAfterBreak ==
    drawn_text.made =>
        /\ drawn_text.font = IntendedFont(drawn_text.kind)
        /\ drawn_text.fill = IntendedFill(drawn_text.kind, drawn_text.url)


SectionStarts == {"customer", "terms", "heading", "footer"}

\* C17 as stated: for any number of line items and address lines the
\* headings of Customer Information, Terms, Services and Usage Terms with
\* the lines drawn under them, the two footer lines after the table and the
\* heading of the agreement section are drawn not below the bottom margin of
\* their page.
C17_SectionsAboveMargin ==
    /\ unit.kind \in SectionStarts => unit.bottom >= min_bottom_margin
    /\ (drawn_text.made /\ drawn_text.kind = "heading") => drawn_text.y >= min_bottom_margin


TableUnits == {"table_header", "period", "row", "total"}
TableSteps == {"table_header", "merged", "rows", "footer"}

\* C18: from the header of the services table to the end of its total row
\* the canvas stays on the page on which the table started, the first: every
\* part of the table is drawn on that page, each row directly below the one
\* before, however many line items there are and also when the table is
\* higher than the space left on the page.
C18_TableNeverPaginated ==
    /\ pc \in TableSteps => c.page = 1
    /\ unit.kind \in TableUnits => unit.page = 1
    /\ (pc = "rows" /\ unit.kind = "row") =>
           /\ unit.bottom = y_cursor
           /\ y_cursor = (table.top - table.head_h) - Sum(SubSeq(table.row_heights, 1, idx))

C18_Witness ==
    /\ pc = "footer"
    /\ unit.kind = "total"
    /\ unit.page = 1
    /\ Len(table.services) = MaxTableRows
    /\ table.table_h > table.top - min_bottom_margin
    /\ unit.bottom < 0


\* C19: wherever the cursor is when the agreement section reaches its
\* signature block, the rule, the two party titles and the By, Name, Title
\* and Date lines of both columns are all drawn on one page, the block
\* reaches from its rule down to the Date lines 125 points below, and the
\* lowest of its elements lies above the bottom margin.
C19_SignatureBlockAtomic ==
    signature.started =>
        /\ Cardinality(signature.pages) = 1
        /\ signature.lowest > min_bottom_margin
        /\ signature.top <= PageHeight
        /\ signature.complete => signature.top - signature.lowest = 125

C19_Witness ==
    /\ signature.started
    /\ signature.complete
    /\ signature.pages = {2}
    /\ lastCall = NoCall
    /\ pc = "signature"
    /\ signature.top = TopMargin + 23


\* The token drawn last is the first of the rich text.
FirstToken == drawn_text.after.kind # "token"

\* The token drawn last fits on the line of the token before it.
FitsAfterPrevious ==
    drawn_text.after.x_end + (drawn_text.x_end - drawn_text.x) <= right_x

\* C20: every token of the rich text is drawn as wide as it is measured; the
\* first at the left margin; each later one directly after the token before
\* it on the same line if it fits before the right margin there, and
\* otherwise at the left margin of a new line exactly line_height (12) lower
\* on the same page.  So every token ends at or before the right margin or
\* starts at the left margin, and the tokens are drawn in their order.
C20_TokensWrapAtRightMargin ==
    (drawn_text.made /\ drawn_text.kind = "token") =>
        /\ drawn_text.x_end - drawn_text.x = stringWidth(rich_tokens[drawn_text.index].token)
        /\ drawn_text.x_end <= right_x \/ drawn_text.x = left_x
        /\ drawn_text.index = IF FirstToken THEN 1 ELSE drawn_text.after.index + 1
        /\ FirstToken => drawn_text.x = left_x
        /\ ~FirstToken =>
               IF FitsAfterPrevious
               THEN /\ drawn_text.x = drawn_text.after.x_end
                    /\ drawn_text.y = drawn_text.after.y
                    /\ drawn_text.page = drawn_text.after.page
               ELSE /\ drawn_text.x = left_x
                    /\ drawn_text.y = drawn_text.after.y - line_height
                    /\ drawn_text.page = drawn_text.after.page

C20_Witness ==
    /\ drawn_text.made
    /\ drawn_text.kind = "token"
    /\ drawn_text.after.kind = "token"
    /\ drawn_text.x = left_x
    /\ drawn_text.y = drawn_text.after.y - line_height
    /\ drawn_text.after.x_end + (drawn_text.x_end - drawn_text.x) > right_x
    /\ drawn_text.x_end <= right_x


\* The token drawn last began a new line: it does not fit after the token
\* before it.
WrappedToken ==
    /\ drawn_text.made
    /\ drawn_text.kind = "token"
    /\ ~FirstToken
    /\ ~FitsAfterPrevious

token_segment ==
    LET count == [k \in DOMAIN segments |-> Len(findall_tokens(segments[k].text))]
        before(k) == Sum(SubSeq(count, 1, k - 1)) IN
    [i \in 1 .. Sum(count) |->
        CHOOSE k \in DOMAIN segments : before(k) < i /\ i <= before(k) + count[k]]

\* The url of the segment of token i, "" for a segment without a link.
SegmentUrl(i) == segments[token_segment[i]].url

\* The tokens of linked segments among the first n.
LinkedTokens(n) == {i \in 1 .. n : SegmentUrl(i) # ""}

\* How many tokens of the rich text are drawn.
TokensDrawn ==
    IF pc = "rich" THEN idx
    ELSE IF pc \in {"paragraph", "signature", "returned", "saved"} /\ is_rich(agreement_section)
         THEN Len(rich_tokens)
         ELSE 0

\* C22: each token of a linked segment is drawn in the link color and
\* registers one region with linkURL, with the url of its own segment, on
\* the page on which the token is drawn, reaching from the x at which the
\* token starts to that x plus the measured width of the token; a token of a
\* segment without a link is drawn in black and registers nothing.  So there
\* are as many regions as linked tokens drawn, and after the last token the
\* fill color is black again.
C22_LinkedTokensColoredAndClickable ==
    /\ Len(links) = Cardinality(LinkedTokens(TokensDrawn))
    /\ \A k \in DOMAIN links : links[k].url \in {segments[j].url : j \in DOMAIN segments} \ {""}
    /\ (drawn_text.made /\ drawn_text.kind = "token") =>
           LET i == drawn_text.index IN
           /\ drawn_text.url = SegmentUrl(i)
           /\ IF SegmentUrl(i) # ""
              THEN /\ drawn_text.fill = "link"
                   /\ links # <<>>
                   /\ links[Len(links)].url = SegmentUrl(i)
                   /\ links[Len(links)].page = drawn_text.page
                   /\ links[Len(links)].rect.x1 = drawn_text.x
                   /\ links[Len(links)].rect.x2 =
                          drawn_text.x + stringWidth(rich_tokens[i].token)
                   /\ links[Len(links)].rect.y1 = drawn_text.y - 1
                   /\ links[Len(links)].rect.y2 = drawn_text.y + 10
              ELSE /\ drawn_text.fill = "black"
                   /\ (links # <<>> /\ drawn_text.after.kind = "token") =>
                          links[Len(links)].url = SegmentUrl(
                              CHOOSE j \in LinkedTokens(i) :
                                  \A m \in LinkedTokens(i) : m <= j)
    /\ (pc = "paragraph" /\ idx = 0) => c.fill = "black"

\* C22 witness: the last token of the second link is drawn on the second
\* page, the sixth region is registered there with the url of that link.
C22_Witness ==
    /\ pc = "rich"
    /\ drawn_text.made
    /\ drawn_text.kind = "token"
    /\ drawn_text.page = 2
    /\ drawn_text.fill = "link"
    /\ drawn_text.url = segments[4].url
    /\ Len(links) = 6
    /\ links[6].page = 2
    /\ links[6].rect.x1 = drawn_text.x
    /\ links[3].url = segments[2].url
    /\ links[3].url # links[6].url


\* The texts of the segments, one after the other.
RECURSIVE segments_text(_)
segments_text(segs) ==
    IF segs = <<>> THEN <<>> ELSE Head(segs).text \o segments_text(Tail(segs))

\* The characters of the first n tokens, in the order in which they are drawn.
RECURSIVE tokens_text(_)
tokens_text(n) ==
    IF n = 0 THEN <<>> ELSE tokens_text(n - 1) \o rich_tokens[n].token

\* C23 as stated: the tokens lose no character of the segments: what is drawn
\* token by token is always a beginning of the text of the segments and,
\* with the last token, all of it, so a word of one segment and the first
\* word of the next stay separated by the whitespace between them.
C23_TokensLoseNoCharacters ==
    pc = "rich" =>
        LET drawn == tokens_text(idx)
            whole == segments_text(segments) IN
        /\ Len(drawn) <= Len(whole)
        /\ drawn = SubSeq(whole, 1, Len(drawn))
        /\ idx = Len(rich_tokens) => drawn = whole


\* The step draws a line of the usage terms.
UsageLineStep ==
    /\ pc = "usage"
    /\ pc' = "usage"
    /\ para <= Len(paragraph_blocks)
    /\ paragraph_blocks[para] > 0
    /\ <<para, idx>>' # <<para, idx>>

\* C24: every line of the usage terms is checked on its own just before it
\* is drawn: where the cursor is at or below the bottom margin (y_after <=
\* 40) the line is drawn at the top margin of a new page, in the regular
\* font and in black, and otherwise on the same page at the cursor; then the
\* cursor goes down by 12.  So no line of the usage terms is drawn at or
\* below the bottom margin, wherever the table above has left the cursor.
C24_UsageLinesChecked ==
    [][UsageLineStep =>
          /\ unit'.kind = "usage_line"
          /\ unit'.bottom > min_bottom_margin
          /\ y' = unit'.top - 12
          /\ IF y <= min_bottom_margin
             THEN /\ unit'.page = c.page + 1
                  /\ unit'.top = PageHeight - 56
                  /\ c'.font = <<font_regular, 10>>
                  /\ c'.fill = "black"
             ELSE /\ unit'.page = c.page
                  /\ unit'.top = y
                  /\ c' = c]_vars

\* C24 witness: a table of MaxTableRows line items has left the cursor below
\* the bottom of the page and the first line of the usage terms is drawn at
\* the top margin of the second page.
C24_Witness ==
    /\ pc = "usage"
    /\ Len(table.services) = MaxTableRows
    /\ table.top - table.table_h < 0
    /\ unit.kind = "usage_line"
    /\ unit.page = 2
    /\ unit.top = PageHeight - 56
    /\ para = 1
    /\ idx = 1


(***************************************************************************)
(* SpecTableEntry: the table of step 3 and the renders of step 4.  The     *)
(* session is the one the wizard has when steps 1 and 2 are completed with *)
(* every field filled; the cells of the table are given texts that are not *)
(* plain amounts.                                                          *)
(***************************************************************************)
CompleteTermsInput ==
    [selected_start |-> Date(2026, 3, 1),
     subscription_term_months |-> 12,
     payment_method |-> BankTransfer,
     billing_id |-> <<>>,
     billing_frequency |-> Annual,
     payment_terms |-> Net30]

\* The session after "Continue to Terms" and "Continue to Product Selection".
SessionAtProductSelection ==
    LET at_terms == [customer_session(InitialSession, CompleteCustomerInput) EXCEPT
                        !.form_step = 2,
                        !.order_data = customer_order(InitialSession, CompleteCustomerInput)]
    IN [at_terms EXCEPT !.form_step = 3,
                        !.order_data = terms_order(@, CompleteTermsInput)]

EntryTexts ==
    [annual_usage_commitment |-> {<<"1", "0", "0", "0">>, <<"0", "0">>},
     annual_service_fee |-> {<<"5">>, <<"-", "5">>}]

EntrySelections ==
    {[warehouse_type |-> "Cloud", picks |-> picks, experimentation |-> NoneStr,
      support_tier |-> Premium, edit |-> NoEdit, click |-> ""] :
         picks \in {<<>>, <<Experimentation>>}}

EntryInputs(ss) == EntrySelections \cup EditInputs(ss, EntryTexts) \cup ClickInputs(ss)

\* A run of step 3, as ProductSelectionRun, with the texts of EntryTexts.
TableEntryRun ==
    /\ session.form_step = 3
    /\ \E inp \in EntryInputs(session) :
           session' = step3_session(product_run(session, inp), inp.click)
    /\ went_back' = (went_back \/ session'.form_step = 2)
    /\ pdf_call' = NoPdfCall
    /\ UNCHANGED <<pc, flowVars, wrapVars, sortVars, renderVars, agreeVars, moreVars>>

InitTableEntry ==
    /\ pc = "main"
    /\ session = SessionAtProductSelection
    /\ pdf_call = NoPdfCall
    /\ went_back = FALSE
    /\ FlowIdle
    /\ WrapIdle
    /\ SortIdle
    /\ RenderIdle
    /\ AgreeIdle
    /\ MoreIdle

NextTableEntry ==
    \/ TableEntryRun
    \/ AgreementRun
    \/ BackToProductSelection
    \/ GeneratePDF

SpecTableEntry == InitTableEntry /\ [][NextTableEntry]_vars

\* A usage commitment as format(n, ",") writes a whole number n >= 0.
IsGroupedWholeNumber(s) ==
    /\ AllDigits(remove(s, ","))
    /\ s = Grouped(StrToNat(remove(s, ",")))

\* C25 as stated: every line item the wizard passes to create_branded_pdf
\* has a fee that is a number not below zero and a usage commitment that is
\* "N/A" or a whole number not below zero written with thousands separators.
C25_LineItemsWellFormed ==
    pdf_call.made =>
        \A i \in DOMAIN pdf_call.services :
            /\ pdf_call.services[i].annual_service_fee.kind = "num"
            /\ pdf_call.services[i].annual_service_fee.v >= 0
            /\ \/ pdf_call.services[i].annual_usage_commitment.s = NA
               \/ IsGroupedWholeNumber(pdf_call.services[i].annual_usage_commitment.s)


\* C26: the table is drawn as its height is computed, for any number of
\* rows: the first row begins at the bottom of the header, every row is as
\* high as row_heights says and ends where the next begins, the cursor after
\* the last row is at the divider of the total row (the bottom of the header
\* minus the sum of the row heights), the total row ends at the top of the
\* table minus (head_h + sum of the row heights + 22), which is the top
\* minus table_h, and the first footer line is drawn 22 below that.
C26_TableGeometryAgrees ==
    table.laid_out =>
        LET heights == table.row_heights
            header_bottom == table.top - table.head_h
            total_bottom == table.top - (table.head_h + Sum(heights) + 22)
        IN /\ Len(heights) = Len(services)
           /\ table.table_h = table.top - total_bottom
           /\ (pc = "rows" /\ unit.kind = "row") =>
                  /\ unit.top = header_bottom - Sum(SubSeq(heights, 1, idx - 1))
                  /\ unit.top - unit.bottom = heights[idx]
                  /\ y_cursor = unit.bottom
           /\ (pc = "rows" /\ idx = 0) => y_cursor = header_bottom
           /\ unit.kind = "total" =>
                  /\ y_cursor = header_bottom - Sum(heights)
                  /\ unit.top = y_cursor
                  /\ unit.bottom = total_bottom
           /\ unit.kind = "footer" => unit.top = total_bottom - 22

\* C26 witness: the footer under a table of MaxTableRows rows, some of them
\* of two lines, which ends below the bottom of the page.
C26_Witness ==
    /\ pc = "usage_heading"
    /\ unit.kind = "footer"
    /\ Len(table.services) = MaxTableRows
    /\ \E i \in DOMAIN table.row_heights : table.row_heights[i] > 22
    /\ \E i \in DOMAIN table.row_heights : table.row_heights[i] = 22
    /\ unit.top = table.top - table.table_h - 22
    /\ unit.top < 0


\* The step goes from form_step a to form_step b.
Goes(a, b) == session.form_step = a /\ session'.form_step = b

\* What each change of form_step requires of the session state it leaves.
StepChangeAllowed ==
    /\ Goes(1, 2) => customer_fields_complete(session'.order_data)
    /\ Goes(2, 3) =>
           \E inp \in TermsInputs :
               /\ session'.order_data = terms_order(session.order_data, inp)
               /\ terms_fields_complete(session'.order_data,
                                        start_valid_of(inp.selected_start))
    /\ Goes(3, 4) =>
           /\ validate_services_rows(session'.services_rows, session'.warehouse_type) = {}
           /\ ~session'.show_table_errors
    /\ Goes(2, 1) =>
           \E inp \in TermsInputs :
               session'.order_data = terms_order(session.order_data, inp)
    /\ Goes(3, 2) => session'.order_data = session.order_data
    /\ Goes(4, 3) =>
           \E inp \in AgreementInputs :
               session'.order_data = agreement_order(session.order_data, inp)

\* A Continue at step 3 that finds errors: the only way the display of the
\* errors is turned on.
FailedContinue ==
    /\ session.form_step = 3
    /\ ~session.show_table_errors
    /\ session'.show_table_errors

\* A click of "Back to Terms" while the other widgets of step 3 are left as
\* they are: the run gets to the button and goes to step 2.
BackToTermsGoesBack ==
    step3_session(product_run(session,
                              [kept_selection(session) EXCEPT !.click = "Back to Terms"]),
                  "Back to Terms").form_step = 2

ResortTexts ==
    [annual_usage_commitment |-> {<<"1", "0", "0", "0">>},
     annual_service_fee |-> {<<"5">>, <<"7">>}]

ResortSelections ==
    {[warehouse_type |-> "Cloud", picks |-> picks, experimentation |-> NoneStr,
      support_tier |-> Premium, edit |-> NoEdit, click |-> ""] :
         picks \in {<<Experimentation>>, <<FeatureGates, Experimentation>>}}

ResortInputs(ss) == ResortSelections \cup EditInputs(ss, ResortTexts) \cup ClickInputs(ss)

\* A run of step 3 that the user starts: a widget change or a click.
ResortRun ==
    /\ pc \in {"main", "resorted"}
    /\ session.form_step = 3
    /\ \E inp \in ResortInputs(session) :
           \E run \in {product_run(session, inp)} :
               /\ session' = step3_session(run, inp.click)
               /\ pc' = IF run.rerun THEN "rerun" ELSE "main"
    /\ went_back' = (went_back \/ session'.form_step = 2)
    /\ pdf_call' = NoPdfCall
    /\ UNCHANGED <<flowVars, wrapVars, sortVars, renderVars, agreeVars, moreVars>>

\* The run that st.rerun() starts: no widget is changed and no button clicked.
RerunProductSelection ==
    /\ pc \in {"rerun", "second rerun"}
    /\ session.form_step = 3
    /\ \E run \in {product_run(session, kept_selection(session))} :
           /\ session' = step3_session(run, "")
           /\ pc' = IF run.rerun THEN "second rerun" ELSE "resorted"
    /\ pdf_call' = NoPdfCall
    /\ UNCHANGED <<flowVars, wrapVars, sortVars, renderVars, agreeVars, moreVars, went_back>>

InitResort ==
    /\ pc = "main"
    /\ session = SessionAtProductSelection
    /\ pdf_call = NoPdfCall
    /\ went_back = FALSE
    /\ FlowIdle
    /\ WrapIdle
    /\ SortIdle
    /\ RenderIdle
    /\ AgreeIdle
    /\ MoreIdle

NextResort ==
    \/ ResortRun
    \/ RerunProductSelection
    \/ AgreementRun
    \/ BackToProductSelection
    \/ GeneratePDF

SpecResort == InitResort /\ [][NextResort]_vars

RerunPending == pc = "rerun"

\* C28: a run that finds the edited rows in another order than the sorted
\* one stores the sorted rows and starts the script again; the run so started
\* finds the stored rows in sorted order, reaches the buttons and starts no
\* further run: no run that st.rerun() started calls st.rerun() again.
C28_ResortTerminates ==
    /\ [][/\ (~RerunPending /\ RerunPending') =>
                 /\ session'.form_step = 3
                 /\ session'.services_rows # session.services_rows
          /\ RerunPending => pc' = "resorted"]_vars
    /\ [](/\ pc # "second rerun"
          /\ RerunPending =>
                 session.services_rows = sort_rows_by_fee_desc(session.services_rows))

\* C28 witness: the rerun has ended at the buttons, with the Experimentation
\* row, selected second, above the Feature Gates row because of its fee.
C28_Witness ==
    /\ pc = "resorted"
    /\ session.form_step = 3
    /\ Len(session.services_rows) = 3
    /\ str(session.services_rows[1].service) = Experimentation
    /\ normalize_fee_value(session.services_rows[1].annual_service_fee) >
           normalize_fee_value(session.services_rows[2].annual_service_fee)

(***************************************************************************)
(* SpecEndDate: one call of compute_end_date, for each start date and each *)
(* term of the sets below.                                                 *)
(***************************************************************************)
EndYears == {2024, 2025}
EndDays == {1, 15, 28, 29, 30, 31}
EndStarts ==
    {dt \in {Date(yr, m, d) : yr \in EndYears, m \in 1 .. 12, d \in EndDays} :
        dt.day <= days_in_month(dt.year, dt.month)}
MaxTerm == 25
EndTerms == {0 - 1, 0, 1, 2, 11, 12, 13, 24, MaxTerm}

InitEndDate ==
    /\ pc = "call"
    /\ end_args \in [start : EndStarts, term_months : EndTerms]
    /\ end_result = <<>>
    /\ FlowIdle
    /\ WrapIdle
    /\ SortIdle
    /\ RenderIdle
    /\ AgreeIdle
    /\ WizardIdle
    /\ NormIdle
    /\ AssetIdle

ComputeEndDate ==
    /\ pc = "call"
    /\ end_result' = compute_end_date(end_args.start, end_args.term_months)
    /\ pc' = "done"
    /\ UNCHANGED <<end_args, flowVars, wrapVars, sortVars, renderVars, agreeVars, wizardVars,
                   normVars, assetVars>>

NextEndDate == ComputeEndDate

SpecEndDate == InitEndDate /\ [][NextEndDate]_vars

\* The months from year 0 to the month of a date, and the calendar order.
MonthsOf(d) == 12 * d.year + d.month - 1

DateLeq(a, b) ==
    \/ MonthsOf(a) < MonthsOf(b)
    \/ MonthsOf(a) = MonthsOf(b) /\ a.day <= b.day

day_after(d) ==
    IF d.day < days_in_month(d.year, d.month) THEN Date(d.year, d.month, d.day + 1)
    ELSE IF d.month < 12 THEN Date(d.year, d.month + 1, 1)
    ELSE Date(d.year + 1, 1, 1)

\* C29: the date compute_end_date returns is the last day of a month 1..12,
\* the month max(1, term) - 1 months after the month of the start; the day
\* after it is the first day of the month max(1, term) months after the
\* start's month, with the year carried; and it is not earlier than the
\* first day of the start's month.
C29_EndDateIsLastDayOfTerm ==
    pc = "done" =>
        LET n == IF end_args.term_months >= 1 THEN end_args.term_months ELSE 1
            first == Date(end_args.start.year, end_args.start.month, 1)
        IN /\ end_result.month \in 1 .. 12
           /\ end_result.day = days_in_month(end_result.year, end_result.month)
           /\ MonthsOf(end_result) = MonthsOf(end_args.start) + n - 1
           /\ day_after(end_result).day = 1
           /\ MonthsOf(day_after(end_result)) = MonthsOf(first) + n
           /\ DateLeq(first, end_result)

\* C29 witness: a term of 13 months from the middle of December ends on the
\* last day of December of the next year.
C29_Witness ==
    /\ pc = "done"
    /\ end_args.start.month = 12
    /\ end_args.start.day = 15
    /\ end_args.term_months = 13
    /\ end_result = Date(end_args.start.year + 1, 12, 31)

\* C30: the session is at step 4 only with at least one product selected by
\* the user.
C30_ContinueNeedsAProduct ==
    session.form_step = 4 => session.selected_products # <<>>

=============================================================================
